---- MODULE Spec2Model ----
(***************************************************************************)
(* Model of the admission-control and timeslot scheduler of quantumnet:    *)
(* Controller (components/controller.py) over Network (components/         *)
(* network.py).  Every public handler is one atomic action; the handler's  *)
(* body is computed by operators over a record `st` of the scheduler's and *)
(* network's fields, translated statement by statement from the source.    *)
(***************************************************************************)
EXTENDS Integers, Sequences, FiniteSets, TLC

\* ------------------------------------------------------------------ bounds
MaxRequests == 2      \* requests submitted in one run
MaxClock == 3         \* scheduling passes are explored while the clock is below it
MaxAttempts == 2      \* largest max_attempts passed to process_requests
MaxSlices == 2        \* slices configured, and slice paths passed to a call
MaxBatch == 5         \* requests in the list given to schedule_requests
MaxQueue == 2         \* requests in one slice queue of the round-robin

\* --------------------------------------------------------------- constants
DefaultMaxAttempts == 1   \* process_requests(self, max_attempts=1)

\* ---------------------------------------------------------------- topology
\* The 4-node line 0-1-2-3 (nx.Graph: channels are undirected edges).
Nodes == 0 .. 3
Edges == {{n, n + 1} : n \in 0 .. 2}

\* Channels the environment is let to empty before a handler runs.  Channel
\* 2-3 is crossed only by the route 0..3, which either of the others already
\* makes unresolvable.
Depletable == {{0, 1}, {1, 2}}

None == <<>>          \* Python None / empty list: both falsy in `if route:`

\* Requests a caller can submit (alice_id, bob_id, num_qubits,
\* len(quantum_circuit.data), protocol).
Kinds ==
  { [alice_id |-> 0, bob_id |-> 3, num_qubits |-> 5, gates |-> 2, protocol |-> "AC_BQC"],
    [alice_id |-> 1, bob_id |-> 2, num_qubits |-> 3, gates |-> 2, protocol |-> "BFK_BQC"],
    [alice_id |-> 0, bob_id |-> 1, num_qubits |-> 3, gates |-> 4, protocol |-> "AC_BQC"],
    [alice_id |-> 1, bob_id |-> 0, num_qubits |-> 5, gates |-> 2, protocol |-> "QKD_E91"] }

VARIABLES
  reqs,        \* the request dicts received so far, by submission index
  status,      \* request['status'] per request ("none": key absent)
  pending,     \* Controller.pending_requests (list of request indices)
  scheduled,   \* Controller.scheduled_requests: timeslot -> list
  occupied,    \* Controller.occupied_routes: (u, v) -> timeslot
  executed,    \* Controller.executed_requests
  failed,      \* Controller.failed_requests
  clock,       \* Network.timeslot_total
  hasEprs,     \* channels whose 'eprs' list is non-empty
  raised,      \* the last handler call ended by raising
  routeOps,    \* history: reserve_route / release_route calls, in order
  schedLog,    \* history: placements into scheduled_requests, in order,
               \* each with the number of requests received by then
  tried,       \* history: try_schedule_request calls of the last pass
  fnIn,        \* slice scheduling: the call made (handler and arguments)
  fnOut        \* slice scheduling: what the call returned or raised

vars == <<reqs, status, pending, scheduled, occupied, executed, failed,
          clock, hasEprs, raised, routeOps, schedLog, tried, fnIn, fnOut>>

\* The fields a handler reads and writes, as one record.  passLog and
\* dispatchLog are the trace of the handler call itself (the iterations of
\* process_requests, the steps of send_scheduled_requests); they start empty
\* in every call and are not kept afterwards.
State ==
  [reqs |-> reqs, status |-> status, pending |-> pending,
   scheduled |-> scheduled, occupied |-> occupied, executed |-> executed,
   failed |-> failed, clock |-> clock, hasEprs |-> hasEprs, raised |-> raised,
   routeOps |-> routeOps, schedLog |-> schedLog, tried |-> tried,
   passLog |-> <<>>, dispatchLog |-> <<>>]

Commit(st) ==
  /\ reqs' = st.reqs
  /\ status' = st.status
  /\ pending' = st.pending
  /\ scheduled' = st.scheduled
  /\ occupied' = st.occupied
  /\ executed' = st.executed
  /\ failed' = st.failed
  /\ clock' = st.clock
  /\ hasEprs' = st.hasEprs
  /\ raised' = st.raised
  /\ routeOps' = st.routeOps
  /\ schedLog' = st.schedLog
  /\ tried' = st.tried
  /\ UNCHANGED <<fnIn, fnOut>>

\* ------------------------------------------------------------------ routes
Range(s) == {s[i] : i \in DOMAIN s}

\* Consecutive node pairs of a route, as the code keys them: (route[i], route[i+1]).
Links(route) == {<<route[i], route[i + 1]>> : i \in 1 .. Len(route) - 1}

\* The channels (undirected edges) a route crosses.
Channels(route) == {{route[i], route[i + 1]} : i \in 1 .. Len(route) - 1}

\* route[:-1] as a set.
AllButLast(route) == {route[i] : i \in 1 .. Len(route) - 1}

\* The only shortest path between two nodes of the line.
Path(a, b) ==
  IF a <= b THEN [i \in 1 .. (b - a + 1) |-> a + i - 1]
            ELSE [i \in 1 .. (a - b + 1) |-> a - i + 1]

\* Network.timeslot(): the counter goes up by one (decoherence lowers
\* fidelities only; it removes no EPR pair).
Timeslot(st) == [st EXCEPT !.clock = @ + 1]

\* networklayer.short_route_valid(alice, bob, increment_timeslot): the
\* shortest path if every channel on it holds an EPR pair, else None; in the
\* default mode (increment_timeslot=True) the query advances the clock.
ShortRouteValid(st, a, b, increment_timeslot) ==
  LET s1 == IF increment_timeslot THEN Timeslot(st) ELSE st
      p == Path(a, b)
  IN [st |-> s1,
      route |-> IF Channels(p) \subseteq st.hasEprs THEN p ELSE None]

\* ---------------------------------------------------------- reservation table
IsRouteAvailable(occ, route, timeslot) ==
  \A l \in Links(route) : ~(l \in DOMAIN occ /\ occ[l] = timeslot)

\* Variant: a link that already has an entry keeps it (setdefault).
ReserveRoute_KeepExisting(occ, route, timeslot) ==
  [l \in DOMAIN occ \cup Links(route) |->
     IF l \in DOMAIN occ THEN occ[l] ELSE timeslot]

ReserveRoute(occ, route, timeslot) ==
  [l \in DOMAIN occ \cup Links(route) |->
     IF l \in Links(route) THEN timeslot ELSE occ[l]]

\* Variant: only the entries holding the earliest timeslot found on the
\* route's links are removed.
ReleaseRoute_EarliestOnly(occ, route) ==
  LET held == {occ[l] : l \in Links(route) \cap DOMAIN occ}
  IN [l \in {x \in DOMAIN occ :
               ~(x \in Links(route) /\ \A t \in held : occ[x] <= t)} |-> occ[l]]

\* Variant: the links of the route are marked with timeslot 0, not removed.
ReleaseRoute_MarksFree(occ, route) ==
  [l \in DOMAIN occ \cup Links(route) |->
     IF l \in Links(route) THEN 0 ELSE occ[l]]

\* occupied_routes.pop(link, None) for every link of the route: entries are
\* removed whatever timeslot they hold, a missing entry is passed over.
ReleaseRoute(occ, route) ==
  [l \in DOMAIN occ \ Links(route) |-> occ[l]]

\* Variant: the candidate timeslot goes up by two.
RECURSIVE ScanTimeslots_StepsTwo(_, _, _)
ScanTimeslots_StepsTwo(occ, route, t) ==
  IF IsRouteAvailable(occ, route, t) THEN t
  ELSE ScanTimeslots_StepsTwo(occ, route, t + 2)

\* while not is_route_available(route, current_timeslot): current_timeslot += 1
RECURSIVE ScanTimeslots(_, _, _)
ScanTimeslots(occ, route, t) ==
  IF IsRouteAvailable(occ, route, t) THEN t
  ELSE ScanTimeslots(occ, route, t + 1)

\* Variant: the clock value is returned without looking at the table.
FindNextAvailableTimeslot_NoScan(st, route) == st.clock

\* find_next_available_timeslot(route): the scan starts at get_timeslot().
FindNextAvailableTimeslot(st, route) ==
  ScanTimeslots(st.occupied, route, st.clock)

\* ---------------------------------------------------------------- priority
\* key=(num_qubits, -len(quantum_circuit.data)), compared as tuples.
\* Variant: the minus sign of the second key component is lost.
KeyLess_GatesAscending(x, y) ==
  \/ x.num_qubits < y.num_qubits
  \/ x.num_qubits = y.num_qubits /\ x.gates < y.gates

KeyLess(x, y) ==
  \/ x.num_qubits < y.num_qubits
  \/ x.num_qubits = y.num_qubits /\ -x.gates < -y.gates

\* list.sort is stable: an element goes behind every element whose key is
\* not greater than its own.
RECURSIVE InsertSorted(_, _, _)
InsertSorted(rq, s, r) ==
  IF s = <<>> THEN <<r>>
  ELSE IF KeyLess(rq[r], rq[Head(s)]) THEN <<r>> \o s
  ELSE <<Head(s)>> \o InsertSorted(rq, Tail(s), r)

RECURSIVE SortFrom(_, _, _)
SortFrom(rq, done, rest) ==
  IF rest = <<>> THEN done
  ELSE SortFrom(rq, InsertSorted(rq, done, Head(rest)), Tail(rest))

\* Variant: the pending list is left in submission order.
PrioritizeRequests_Unsorted(rq, pend) == pend

PrioritizeRequests(rq, pend) == SortFrom(rq, <<>>, pend)

\* --------------------------------------------------------------- scheduling
\* share_timeslot: scans the timeslot's requests newest first; each one's
\* route is asked again of the oracle in its default (clock-advancing) mode;
\* a route of None makes existing_route[:-1] raise TypeError.
\* Variant: only the nodes strictly inside the routes are compared.
RECURSIVE ShareScan_Interior(_, _, _, _)
ShareScan_Interior(st, route, lst, i) ==
  IF i = 0 THEN [st |-> st, ok |-> TRUE, raised |-> FALSE]
  ELSE LET q == ShortRouteValid(st, st.reqs[lst[i]].alice_id,
                                st.reqs[lst[i]].bob_id, TRUE)
       IN IF q.route = None
            THEN [st |-> q.st, ok |-> FALSE, raised |-> TRUE]
          ELSE IF (AllButLast(route) \ {route[1]})
                    \cap (AllButLast(q.route) \ {q.route[1]}) # {}
            THEN [st |-> q.st, ok |-> FALSE, raised |-> FALSE]
          ELSE ShareScan_Interior(q.st, route, lst, i - 1)

\* Variant: the routes are compared with their terminal nodes included.
RECURSIVE ShareScan_FullRoute(_, _, _, _)
ShareScan_FullRoute(st, route, lst, i) ==
  IF i = 0 THEN [st |-> st, ok |-> TRUE, raised |-> FALSE]
  ELSE LET q == ShortRouteValid(st, st.reqs[lst[i]].alice_id,
                                st.reqs[lst[i]].bob_id, TRUE)
       IN IF q.route = None
            THEN [st |-> q.st, ok |-> FALSE, raised |-> TRUE]
          ELSE IF Range(route) \cap Range(q.route) # {}
            THEN [st |-> q.st, ok |-> FALSE, raised |-> FALSE]
          ELSE ShareScan_FullRoute(q.st, route, lst, i - 1)

RECURSIVE ShareScan(_, _, _, _)
ShareScan(st, route, lst, i) ==
  IF i = 0 THEN [st |-> st, ok |-> TRUE, raised |-> FALSE]
  ELSE LET q == ShortRouteValid(st, st.reqs[lst[i]].alice_id,
                                st.reqs[lst[i]].bob_id, TRUE)
       IN IF q.route = None
            THEN [st |-> q.st, ok |-> FALSE, raised |-> TRUE]
          ELSE IF AllButLast(route) \cap AllButLast(q.route) # {}
            THEN [st |-> q.st, ok |-> FALSE, raised |-> FALSE]
          ELSE ShareScan(q.st, route, lst, i - 1)

ShareTimeslot(st, route, timeslot) ==
  IF timeslot \notin DOMAIN st.scheduled
    THEN [st |-> st, ok |-> TRUE, raised |-> FALSE]
  ELSE ShareScan(st, route, st.scheduled[timeslot],
                 Len(st.scheduled[timeslot]))

\* reserve_route(route, ts); scheduled_requests.setdefault(ts, []).append(r)
Place(st, r, route, ts) ==
  [st EXCEPT
     !.occupied = ReserveRoute(@, route, ts),
     !.scheduled = [t \in DOMAIN @ \cup {ts} |->
                      IF t \in DOMAIN @
                        THEN (IF t = ts THEN Append(@[t], r) ELSE @[t])
                        ELSE <<r>>],
     !.routeOps = Append(@, [op |-> "reserve", route |-> route, ts |-> ts,
                             req |-> r]),
     !.schedLog = Append(@, [req |-> r, ts |-> ts, nreq |-> Len(st.reqs)])]

\* Variant: the share branch does not return; the request is placed again
\* by the fallback.
TryScheduleRequest_FallThrough(st, r, current_timeslot) ==
  LET q == ShortRouteValid(st, st.reqs[r].alice_id, st.reqs[r].bob_id, FALSE)
      route == q.route
  IN IF route = None THEN [st |-> q.st, ok |-> FALSE, raised |-> FALSE]
     ELSE
       LET sh == IF current_timeslot \in DOMAIN q.st.scheduled
                   THEN ShareTimeslot(q.st, route, current_timeslot)
                   ELSE [st |-> q.st, ok |-> FALSE, raised |-> FALSE]
           s1 == IF sh.ok THEN Place(sh.st, r, route, current_timeslot)
                 ELSE sh.st
       IN IF sh.raised THEN [st |-> sh.st, ok |-> FALSE, raised |-> TRUE]
          ELSE
            LET next_timeslot == FindNextAvailableTimeslot(s1, route)
            IN IF IsRouteAvailable(s1.occupied, route, next_timeslot)
                 THEN [st |-> Place(s1, r, route, next_timeslot),
                       ok |-> TRUE, raised |-> FALSE]
                 ELSE [st |-> s1, ok |-> sh.ok, raised |-> FALSE]

\* Variant: a request without a route is entered in failed_requests.
TryScheduleRequest_RecordsNoRoute(st, r, current_timeslot) ==
  LET q == ShortRouteValid(st, st.reqs[r].alice_id, st.reqs[r].bob_id, FALSE)
      route == q.route
  IN IF route = None
       THEN [st |-> [q.st EXCEPT !.failed =
                       Append(@, [request |-> r,
                                  reason |-> "Falha desconhecida"])],
             ok |-> FALSE, raised |-> FALSE]
     ELSE
       LET sh == IF current_timeslot \in DOMAIN q.st.scheduled
                   THEN ShareTimeslot(q.st, route, current_timeslot)
                   ELSE [st |-> q.st, ok |-> FALSE, raised |-> FALSE]
       IN IF sh.raised THEN [st |-> sh.st, ok |-> FALSE, raised |-> TRUE]
          ELSE IF sh.ok
            THEN [st |-> Place(sh.st, r, route, current_timeslot),
                  ok |-> TRUE, raised |-> FALSE]
          ELSE
            LET next_timeslot == FindNextAvailableTimeslot(sh.st, route)
            IN IF IsRouteAvailable(sh.st.occupied, route, next_timeslot)
                 THEN [st |-> Place(sh.st, r, route, next_timeslot),
                       ok |-> TRUE, raised |-> FALSE]
                 ELSE [st |-> sh.st, ok |-> FALSE, raised |-> FALSE]

TryScheduleRequest(st, r, current_timeslot) ==
  LET q == ShortRouteValid(st, st.reqs[r].alice_id, st.reqs[r].bob_id, FALSE)
      route == q.route
  IN IF route = None THEN [st |-> q.st, ok |-> FALSE, raised |-> FALSE]
     ELSE
       LET sh == IF current_timeslot \in DOMAIN q.st.scheduled
                   THEN ShareTimeslot(q.st, route, current_timeslot)
                   ELSE [st |-> q.st, ok |-> FALSE, raised |-> FALSE]
       IN IF sh.raised THEN [st |-> sh.st, ok |-> FALSE, raised |-> TRUE]
          ELSE IF sh.ok
            THEN [st |-> Place(sh.st, r, route, current_timeslot),
                  ok |-> TRUE, raised |-> FALSE]
          ELSE
            LET next_timeslot == FindNextAvailableTimeslot(sh.st, route)
            IN IF IsRouteAvailable(sh.st.occupied, route, next_timeslot)
                 THEN [st |-> Place(sh.st, r, route, next_timeslot),
                       ok |-> TRUE, raised |-> FALSE]
                 ELSE [st |-> sh.st, ok |-> FALSE, raised |-> FALSE]

\* One iteration of the while loop, as it is entered in passLog.
Iteration(request, ok, current_timeslot, st) ==
  [req |-> request, ok |-> ok, at |-> current_timeslot, after |-> st.clock]

\* Variant: the loop condition is attempts <= max_attempts.
RECURSIVE ProcessLoop_OneMoreAttempt(_, _, _)
ProcessLoop_OneMoreAttempt(st, attempts, max_attempts) ==
  IF st.pending = <<>> \/ attempts > max_attempts THEN st
  ELSE
    LET s0 == IF st.clock = 0 THEN Timeslot(st) ELSE st
        current_timeslot == s0.clock
        request == Head(s0.pending)
        res == TryScheduleRequest([s0 EXCEPT !.tried = Append(@, request)],
                                  request, current_timeslot)
        s1 == [res.st EXCEPT !.pending = Tail(@)]
        s2 == Timeslot(res.st)
    IN IF res.raised THEN [res.st EXCEPT !.raised = TRUE]
       ELSE IF res.ok
         THEN ProcessLoop_OneMoreAttempt(
                [s1 EXCEPT !.passLog =
                   Append(@, Iteration(request, TRUE, current_timeslot, s1))],
                0, max_attempts)
       ELSE ProcessLoop_OneMoreAttempt(
              [s2 EXCEPT !.passLog =
                 Append(@, Iteration(request, FALSE, current_timeslot, s2))],
              attempts + 1, max_attempts)

\* Variant: the clock is not moved off 0 before the first attempt.
RECURSIVE ProcessLoop_NoZeroBump(_, _, _)
ProcessLoop_NoZeroBump(st, attempts, max_attempts) ==
  IF st.pending = <<>> \/ attempts >= max_attempts THEN st
  ELSE
    LET current_timeslot == st.clock
        request == Head(st.pending)
        res == TryScheduleRequest([st EXCEPT !.tried = Append(@, request)],
                                  request, current_timeslot)
        s1 == [res.st EXCEPT !.pending = Tail(@)]
        s2 == Timeslot(res.st)
    IN IF res.raised THEN [res.st EXCEPT !.raised = TRUE]
       ELSE IF res.ok
         THEN ProcessLoop_NoZeroBump(
                [s1 EXCEPT !.passLog =
                   Append(@, Iteration(request, TRUE, current_timeslot, s1))],
                0, max_attempts)
       ELSE ProcessLoop_NoZeroBump(
              [s2 EXCEPT !.passLog =
                 Append(@, Iteration(request, FALSE, current_timeslot, s2))],
              attempts + 1, max_attempts)

\* Variant: a head request that could not be placed goes to the back of
\* pending, so that the next iteration tries the request behind it.
RECURSIVE ProcessLoop_SkipsUnplaceable(_, _, _)
ProcessLoop_SkipsUnplaceable(st, attempts, max_attempts) ==
  IF st.pending = <<>> \/ attempts >= max_attempts THEN st
  ELSE
    LET s0 == IF st.clock = 0 THEN Timeslot(st) ELSE st
        current_timeslot == s0.clock
        request == Head(s0.pending)
        res == TryScheduleRequest([s0 EXCEPT !.tried = Append(@, request)],
                                  request, current_timeslot)
        s1 == [res.st EXCEPT !.pending = Tail(@)]
        s2 == [Timeslot(res.st) EXCEPT !.pending = Append(Tail(@), Head(@))]
    IN IF res.raised THEN [res.st EXCEPT !.raised = TRUE]
       ELSE IF res.ok
         THEN ProcessLoop_SkipsUnplaceable(
                [s1 EXCEPT !.passLog =
                   Append(@, Iteration(request, TRUE, current_timeslot, s1))],
                0, max_attempts)
       ELSE ProcessLoop_SkipsUnplaceable(
              [s2 EXCEPT !.passLog =
                 Append(@, Iteration(request, FALSE, current_timeslot, s2))],
              attempts + 1, max_attempts)

\* The while loop of process_requests.
RECURSIVE ProcessLoop(_, _, _)
ProcessLoop(st, attempts, max_attempts) ==
  IF st.pending = <<>> \/ attempts >= max_attempts THEN st
  ELSE
    LET s0 == IF st.clock = 0 THEN Timeslot(st) ELSE st
        current_timeslot == s0.clock
        request == Head(s0.pending)
        res == TryScheduleRequest([s0 EXCEPT !.tried = Append(@, request)],
                                  request, current_timeslot)
        s1 == [res.st EXCEPT !.pending = Tail(@)]
        s2 == Timeslot(res.st)
    IN IF res.raised THEN [res.st EXCEPT !.raised = TRUE]
       ELSE IF res.ok
         THEN ProcessLoop(
                [s1 EXCEPT !.passLog =
                   Append(@, Iteration(request, TRUE, current_timeslot, s1))],
                0, max_attempts)
       ELSE ProcessLoop(
              [s2 EXCEPT !.passLog =
                 Append(@, Iteration(request, FALSE, current_timeslot, s2))],
              attempts + 1, max_attempts)

ProcessRequests(st, max_attempts) ==
  ProcessLoop([st EXCEPT !.pending = PrioritizeRequests(st.reqs, @),
                         !.tried = <<>>,
                         !.raised = FALSE],
              0, max_attempts)

\* ----------------------------------------------------------------- dispatch
\* What the opaque transport layer does in one protocol run: whether the
\* transport succeeds, and whether the route's channels hold EPR pairs after
\* the protocol emptied them (remove_all_eprs_from_channel) and ran.
Outcomes == [success : BOOLEAN, eprsLeft : BOOLEAN]

RECURSIVE Ticks(_, _)
Ticks(st, n) == IF n = 0 THEN st ELSE Ticks(Timeslot(st), n - 1)

\* timeslot() calls a protocol makes after its transport succeeded:
\* Andrews-Childs two (server operations, Clifford decoding); BFK one
\* (brickwork state) and two per round of run_computation, one round per qubit.
TicksAfterTransport(req) ==
  IF req.protocol = "AC_BQC" THEN 2 ELSE 1 + 2 * req.num_qubits

\* application_layer.run_app for AC_BQC / BFK_BQC with slice_path None: two
\* timeslot() calls, the route asked again (default mode), the route's EPR
\* pairs cleared, the transport, then the rest of the protocol.
RunApp(st, r, o) ==
  LET req == st.reqs[r]
      q == ShortRouteValid(Ticks(st, 2), req.alice_id, req.bob_id, TRUE)
  IN IF q.route = None THEN [st |-> q.st, success |-> FALSE]
     ELSE LET s1 == [q.st EXCEPT !.hasEprs =
                       IF o.eprsLeft THEN @ ELSE @ \ Channels(q.route)]
          IN IF o.success
               THEN [st |-> Ticks(s1, TicksAfterTransport(req)),
                     success |-> TRUE]
               ELSE [st |-> s1, success |-> FALSE]

\* Network.execute_request(request)
ExecuteRequest(st, r, o) ==
  IF st.reqs[r].protocol \in {"AC_BQC", "BFK_BQC"}
    THEN LET res == RunApp(st, r, o)
         IN [st |-> [res.st EXCEPT !.status[r] =
                       IF res.success THEN "executado" ELSE "falhou"],
             success |-> res.success]
    ELSE [st |-> [st EXCEPT !.status[r] = "erro"], success |-> FALSE]

\* Controller.record_failed_request(request)
RecordFailedRequest(st, r) ==
  [st EXCEPT !.failed = Append(@, [request |-> r,
                                   reason |-> "Falha desconhecida"])]

Released(st, r, route) ==
  [st EXCEPT !.occupied = ReleaseRoute(@, route),
             !.routeOps = Append(@, [op |-> "release", route |-> route,
                                     ts |-> 0, req |-> r])]

\* Variant: the route is released only after a successful execution.
ExecuteRequestOne_KeepsRouteOnFailure(st, r, o) ==
  LET q == ShortRouteValid(st, st.reqs[r].alice_id, st.reqs[r].bob_id, TRUE)
      route == q.route
  IN IF route # None
       THEN LET ex == ExecuteRequest(q.st, r, o)
            IN IF ex.success
                 THEN [st |-> Released(ex.st, r, route), ok |-> TRUE]
                 ELSE [st |-> RecordFailedRequest(ex.st, r), ok |-> FALSE]
       ELSE [st |-> RecordFailedRequest(q.st, r), ok |-> FALSE]

\* Controller.execute_request_one(request)
ExecuteRequestOne(st, r, o) ==
  LET q == ShortRouteValid(st, st.reqs[r].alice_id, st.reqs[r].bob_id, TRUE)
      route == q.route
  IN IF route # None
       THEN LET ex == ExecuteRequest(q.st, r, o)
            IN IF ex.success
                 THEN [st |-> Released(ex.st, r, route), ok |-> TRUE]
                 ELSE [st |-> Released(RecordFailedRequest(ex.st, r), r, route),
                       ok |-> FALSE]
       ELSE [st |-> RecordFailedRequest(q.st, r), ok |-> FALSE]

\* The for loop of execute_scheduled_requests over the timeslot's list.
RECURSIVE ExecuteList(_, _, _, _, _)
ExecuteList(st, timeslot, lst, i, script) ==
  IF i > Len(lst) THEN st
  ELSE LET res == ExecuteRequestOne(st, lst[i], script[lst[i]])
           s1 == IF res.ok
                   THEN [res.st EXCEPT !.executed =
                           Append(@, [request |-> lst[i],
                                      timeslot |-> timeslot])]
                   ELSE res.st
       IN ExecuteList(s1, timeslot, lst, i + 1, script)

\* Variant: the timeslot's entry is not deleted after the loop.
ExecuteScheduledRequests_NoDelete(st, timeslot, script) ==
  IF timeslot \notin DOMAIN st.scheduled THEN st
  ELSE ExecuteList(st, timeslot, st.scheduled[timeslot], 1, script)

\* Controller.execute_scheduled_requests(timeslot)
ExecuteScheduledRequests(st, timeslot, script) ==
  IF timeslot \notin DOMAIN st.scheduled THEN st
  ELSE LET s1 == ExecuteList(st, timeslot, st.scheduled[timeslot], 1, script)
       IN [s1 EXCEPT !.scheduled =
             [t \in DOMAIN @ \ {timeslot} |-> @[t]]]

\* Variant: the restart also sets the timeslot counter back to 0.
RestartNetwork_ResetsClock(st) == [st EXCEPT !.hasEprs = Edges, !.clock = 0]

\* Network.restart_network(): start_eprs(10) refills every channel.
RestartNetwork(st) == [st EXCEPT !.hasEprs = Edges]

SetMin(S) == CHOOSE x \in S : \A y \in S : x <= y

SetMax(S) == CHOOSE x \in S : \A y \in S : x >= y

\* One body of the for loop of send_scheduled_requests: the timeslot is
\* executed, then the network restarted; both steps enter dispatchLog.
SendOne(st, ts, script) ==
  LET s1 == ExecuteScheduledRequests(st, ts, script)
      s2 == [s1 EXCEPT !.dispatchLog = Append(@, [op |-> "execute", ts |-> ts])]
      s3 == RestartNetwork(s2)
  IN [s3 EXCEPT !.dispatchLog = Append(@, [op |-> "restart", ts |-> ts])]

\* Variant: the keys are gone through from the greatest down.
RECURSIVE SendLoop_Descending(_, _, _)
SendLoop_Descending(st, keys, script) ==
  IF keys = {} THEN st
  ELSE LET ts == SetMax(keys)
       IN SendLoop_Descending(SendOne(st, ts, script), keys \ {ts}, script)

\* The for loop of send_scheduled_requests over sorted(keys()).
RECURSIVE SendLoop(_, _, _)
SendLoop(st, keys, script) ==
  IF keys = {} THEN st
  ELSE LET ts == SetMin(keys)
       IN SendLoop(SendOne(st, ts, script), keys \ {ts}, script)

SendScheduledRequests(st, script) ==
  SendLoop([st EXCEPT !.raised = FALSE], DOMAIN st.scheduled, script)

ScheduledIds(sch) == UNION {Range(sch[t]) : t \in DOMAIN sch}

\* ------------------------------------------------------------------- report
\* One entry of report["failed_details"].
FailedDetail(st, f) ==
  [alice_id |-> st.reqs[f.request].alice_id,
   bob_id |-> st.reqs[f.request].bob_id,
   num_qubits |-> st.reqs[f.request].num_qubits,
   reason |-> f.reason]

\* Variant: the failures are taken off failed_requests as they are reported.
GenerateScheduleReport_DrainsFailed(st) ==
  [st |-> [st EXCEPT !.failed = <<>>],
   report |-> [success |-> Len(st.executed),
               failed |-> Len(st.failed),
               scheduled |-> Cardinality(DOMAIN st.scheduled),
               failed_details |->
                 [i \in DOMAIN st.failed |-> FailedDetail(st, st.failed[i])]]]

\* Controller.generate_schedule_report(): len(executed_requests),
\* len(failed_requests), len(scheduled_requests) (the dict of timeslots) and
\* one detail per failure.
GenerateScheduleReport(st) ==
  [st |-> st,
   report |-> [success |-> Len(st.executed),
               failed |-> Len(st.failed),
               scheduled |-> Cardinality(DOMAIN st.scheduled),
               failed_details |->
                 [i \in DOMAIN st.failed |-> FailedDetail(st, st.failed[i])]]]

\* ------------------------------------------------------- slice configuration
\* Controller.slices and Controller.scheduled_requests_slice of a fresh
\* controller.  A slice table maps the index i of 'slice_i' to its record; the
\* queue table maps a protocol to its list.
EmptyCfg == [slices |-> <<>>, queues |-> <<>>]

Min(a, b) == IF a <= b THEN a ELSE b

\* The for loop of initialize_slices over enumerate(zip(...), start=1).
RECURSIVE ConfigureFrom(_, _, _, _, _, _, _)
ConfigureFrom(cfg, i, n, clients, server, protocols, slice_paths_list) ==
  IF i > n THEN cfg
  ELSE
    LET slice == [client |-> clients[i], server |-> server,
                  path |-> slice_paths_list[i], protocol |-> protocols[i]]
        slices2 == [k \in DOMAIN cfg.slices \cup {i} |->
                      IF k = i THEN slice ELSE cfg.slices[k]]
        queues2 == IF protocols[i] \in DOMAIN cfg.queues THEN cfg.queues
                   ELSE [p \in DOMAIN cfg.queues \cup {protocols[i]} |->
                           IF p = protocols[i] THEN <<>> ELSE cfg.queues[p]]
    IN ConfigureFrom([slices |-> slices2, queues |-> queues2], i + 1, n,
                     clients, server, protocols, slice_paths_list)

\* Variant: only the clients and protocols lists are compared in length.
InitializeSlices_PathsUnchecked(cfg, clients, server, protocols, slice_paths_list) ==
  IF Len(clients) # Len(protocols)
    THEN [cfg |-> cfg, raised |-> TRUE]
  ELSE [cfg |-> ConfigureFrom(cfg, 1,
                              Min(Len(clients),
                                  Min(Len(protocols), Len(slice_paths_list))),
                              clients, server, protocols, slice_paths_list),
        raised |-> FALSE]

\* Controller.initialize_slices(network, clients, server, protocols,
\* slice_paths_list): ValueError unless the three lists are equally long.
InitializeSlices(cfg, clients, server, protocols, slice_paths_list) ==
  IF Len(clients) # Len(protocols) \/ Len(protocols) # Len(slice_paths_list)
    THEN [cfg |-> cfg, raised |-> TRUE]
  ELSE [cfg |-> ConfigureFrom(cfg, 1,
                              Min(Len(clients),
                                  Min(Len(protocols), Len(slice_paths_list))),
                              clients, server, protocols, slice_paths_list),
        raised |-> FALSE]

\* --------------------------------------------------- fixed-capacity batching
\* An optional argument: left out (None) or given.
NotGiven == [given |-> FALSE]

Given(v) == [given |-> TRUE, value |-> v]

\* list.index(x): position from 0 of the first x, 0 - 1 when there is none
\* (where Python raises ValueError).
IndexOf(list, x) ==
  IF \E i \in DOMAIN list : list[i] = x
    THEN (CHOOSE i \in DOMAIN list :
            list[i] = x /\ \A j \in DOMAIN list : list[j] = x => i <= j) - 1
    ELSE 0 - 1

\* Variant: a last batch that is not full is left out.
Batches_DropsPartial(requests, num_slices) ==
  [t \in 1 .. (Len(requests) \div num_slices) |->
     SubSeq(requests, (t - 1) * num_slices + 1,
            Min(t * num_slices, Len(requests)))]

\* for i in range(0, len(requests), num_slices):
\*     scheduled_timeslots[current_timeslot] = requests[i:i + num_slices]
Batches(requests, num_slices) ==
  [t \in 1 .. ((Len(requests) + num_slices - 1) \div num_slices) |->
     SubSeq(requests, (t - 1) * num_slices + 1,
            Min(t * num_slices, Len(requests)))]

\* Variant: the slice is 'slice_<index of the protocol>', without the + 1.
RECURSIVE Annotate_IndexFromZero(_, _, _, _)
Annotate_IndexFromZero(requests, i, slice_paths, protocols) ==
  IF i > Len(requests) THEN [requests |-> requests, raised |-> FALSE]
  ELSE
    LET idx == IndexOf(protocols, requests[i].protocol)
    IN IF idx < 0 THEN [requests |-> requests, raised |-> TRUE]
       ELSE IF idx \in DOMAIN slice_paths /\ slice_paths[idx] # <<>>
         THEN Annotate_IndexFromZero(
                [requests EXCEPT ![i].slice_path = slice_paths[idx]],
                i + 1, slice_paths, protocols)
       ELSE Annotate_IndexFromZero(requests, i + 1, slice_paths, protocols)

\* The annotation loop of schedule_requests over the requests in timeslot
\* order: request['slice_path'] = path when slice_paths has a truthy path
\* for 'slice_<index of the protocol + 1>'.  protocols.index raises ValueError
\* for a protocol that is not in the list; what was annotated before stays.
RECURSIVE Annotate(_, _, _, _)
Annotate(requests, i, slice_paths, protocols) ==
  IF i > Len(requests) THEN [requests |-> requests, raised |-> FALSE]
  ELSE
    LET idx == IndexOf(protocols, requests[i].protocol)
    IN IF idx < 0 THEN [requests |-> requests, raised |-> TRUE]
       ELSE IF (idx + 1) \in DOMAIN slice_paths /\ slice_paths[idx + 1] # <<>>
         THEN Annotate([requests EXCEPT ![i].slice_path = slice_paths[idx + 1]],
                       i + 1, slice_paths, protocols)
       ELSE Annotate(requests, i + 1, slice_paths, protocols)

\* Controller.schedule_requests(requests, slice_paths=None, protocols=None).
\* Raises: ValueError for protocols None, TypeError for len(None), ValueError
\* for range() with step 0, ValueError of protocols.index.  `requests` in the
\* result is the caller's list as the call leaves it.
ScheduleRequests(requests, slice_paths, protocols) ==
  IF ~protocols.given
    THEN [raised |-> TRUE, timeslots |-> <<>>, requests |-> requests]
  ELSE IF ~slice_paths.given
    THEN [raised |-> TRUE, timeslots |-> <<>>, requests |-> requests]
  ELSE IF DOMAIN slice_paths.value = {}
    THEN [raised |-> TRUE, timeslots |-> <<>>, requests |-> requests]
  ELSE
    LET num_slices == Cardinality(DOMAIN slice_paths.value)
        ann == Annotate(requests, 1, slice_paths.value, protocols.value)
    IN IF ann.raised
         THEN [raised |-> TRUE, timeslots |-> <<>>, requests |-> ann.requests]
         ELSE [raised |-> FALSE,
               timeslots |-> Batches(ann.requests, num_slices),
               requests |-> ann.requests]

\* ------------------------------------------------------ round-robin placement
\* slice_requests is a dict in insertion order: a list of (slice_id, queue).
\* One pass of the for loop: requests.pop(0) from every non-empty queue.
Heads(queues) ==
  LET nonEmpty == {i \in DOMAIN queues : queues[i].queue # <<>>}
      RECURSIVE Collect(_)
      Collect(i) == IF i > Len(queues) THEN <<>>
                    ELSE IF i \in nonEmpty
                      THEN <<Head(queues[i].queue)>> \o Collect(i + 1)
                    ELSE Collect(i + 1)
  IN Collect(1)

Tails(queues) ==
  [i \in DOMAIN queues |->
     [queues[i] EXCEPT !.queue = IF @ = <<>> THEN @ ELSE Tail(@)]]

\* Variant: requests.pop() takes the newest request of each queue.
RECURSIVE RoundRobin_PopsLast(_, _)
RoundRobin_PopsLast(queues, timeslots) ==
  IF \A i \in DOMAIN queues : queues[i].queue = <<>>
    THEN [timeslots |-> timeslots, slice_requests |-> queues]
  ELSE
    LET Reversed(q) == [j \in DOMAIN q |-> q[Len(q) + 1 - j]]
        flipped == [i \in DOMAIN queues |->
                      [queues[i] EXCEPT !.queue = Reversed(@)]]
        rest == Tails(flipped)
    IN RoundRobin_PopsLast(
         [i \in DOMAIN rest |-> [rest[i] EXCEPT !.queue = Reversed(@)]],
         Append(timeslots, Heads(flipped)))

\* The while loop of schedule_requests_in_timeslots.
RECURSIVE RoundRobin(_, _)
RoundRobin(queues, timeslots) ==
  IF \A i \in DOMAIN queues : queues[i].queue = <<>>
    THEN [timeslots |-> timeslots, slice_requests |-> queues]
  ELSE RoundRobin(Tails(queues), Append(timeslots, Heads(queues)))

\* Controller.schedule_requests_in_timeslots(slice_requests): the timeslots
\* returned, keyed from 1, and the caller's queues as the call leaves them.
ScheduleRequestsInTimeslots(slice_requests) ==
  RoundRobin(slice_requests, <<>>)

\* ------------------------------------------------------------ slice grouping
\* Variant: a request whose protocol is not mapped is left out of the grouping.
RECURSIVE MapLoop_SkipsUnmapped(_, _, _, _)
MapLoop_SkipsUnmapped(requests, i, protocol_to_slice, slice_requests) ==
  IF i > Len(requests)
    THEN [raised |-> FALSE, slice_requests |-> slice_requests]
  ELSE
    LET protocol == requests[i].protocol
    IN IF protocol \notin DOMAIN protocol_to_slice
         THEN MapLoop_SkipsUnmapped(requests, i + 1, protocol_to_slice,
                                    slice_requests)
       ELSE
         LET slice_id == protocol_to_slice[protocol]
         IN IF \E j \in DOMAIN slice_requests :
                 slice_requests[j].slice_id = slice_id
              THEN MapLoop_SkipsUnmapped(requests, i + 1, protocol_to_slice,
                     [j \in DOMAIN slice_requests |->
                        IF slice_requests[j].slice_id = slice_id
                          THEN [slice_requests[j] EXCEPT
                                  !.queue = Append(@, requests[i])]
                          ELSE slice_requests[j]])
            ELSE MapLoop_SkipsUnmapped(requests, i + 1, protocol_to_slice,
                   Append(slice_requests,
                          [slice_id |-> slice_id, queue |-> <<requests[i]>>]))

\* The for loop of map_requests_to_slices from request i on.  slice_requests
\* is the dict built so far, in insertion order.  protocol_to_slice.get gives
\* None for a protocol that is not a key and `if not slice_id` raises
\* ValueError; the slice ids k stand for the truthy strings 'slice_k'.
RECURSIVE MapLoop(_, _, _, _)
MapLoop(requests, i, protocol_to_slice, slice_requests) ==
  IF i > Len(requests)
    THEN [raised |-> FALSE, slice_requests |-> slice_requests]
  ELSE
    LET protocol == requests[i].protocol
    IN IF protocol \notin DOMAIN protocol_to_slice
         THEN [raised |-> TRUE, slice_requests |-> <<>>]
       ELSE
         LET slice_id == protocol_to_slice[protocol]
         IN IF \E j \in DOMAIN slice_requests :
                 slice_requests[j].slice_id = slice_id
              THEN MapLoop(requests, i + 1, protocol_to_slice,
                     [j \in DOMAIN slice_requests |->
                        IF slice_requests[j].slice_id = slice_id
                          THEN [slice_requests[j] EXCEPT
                                  !.queue = Append(@, requests[i])]
                          ELSE slice_requests[j]])
            ELSE MapLoop(requests, i + 1, protocol_to_slice,
                   Append(slice_requests,
                          [slice_id |-> slice_id, queue |-> <<requests[i]>>]))

\* Controller.map_requests_to_slices(requests, protocol_to_slice): the
\* grouping returned, or raised with nothing returned.
MapRequestsToSlices(requests, protocol_to_slice) ==
  MapLoop(requests, 1, protocol_to_slice, <<>>)

\* ------------------------------------------------------------------ actions
\* No slice-scheduling call is being looked at.
NotCalled == [fn |-> "none"]

ControllerInit ==
  /\ reqs = <<>>
  /\ status = <<>>
  /\ pending = <<>>
  /\ scheduled = <<>>
  /\ occupied = <<>>
  /\ executed = <<>>
  /\ failed = <<>>
  /\ clock = 0
  /\ hasEprs = Edges
  /\ raised = FALSE
  /\ routeOps = <<>>
  /\ schedLog = <<>>
  /\ tried = <<>>

Init ==
  /\ ControllerInit
  /\ fnIn = NotCalled
  /\ fnOut = NotCalled

\* Controller.receive_request(request)
ReceiveRequest(k) ==
  /\ Len(reqs) < MaxRequests
  /\ clock < MaxClock
  /\ LET r == Len(reqs) + 1
         st0 == [State EXCEPT !.reqs = Append(@, k),
                              !.status = Append(@, "none"),
                              !.pending = Append(@, r)]
         st1 == ProcessRequests(st0, DefaultMaxAttempts)
     IN Commit(st1)

\* Controller.process_requests(max_attempts) called directly
ProcessRequestsCall(m) ==
  /\ clock < MaxClock
  /\ Commit(ProcessRequests(State, m))

\* Controller.send_scheduled_requests()
SendScheduledRequestsCall ==
  /\ UNCHANGED <<reqs, pending, tried>>
  /\ \E script \in [ScheduledIds(scheduled) -> Outcomes] :
       Commit(SendScheduledRequests(State, script))

\* Controller.generate_schedule_report(): the report (whose first count is
\* len(executed_requests)) goes to the caller; the fields are as the call
\* leaves them.
GenerateScheduleReportCall ==
  LET res == GenerateScheduleReport(State)
  IN /\ res.report.success = Len(executed)
     /\ Commit(res.st)

\* Network.restart_network() called directly
RestartNetworkCall ==
  /\ hasEprs # Edges
  /\ Commit(RestartNetwork(State))

\* Network.remove_epr(alice, bob) taking the channel's last pair
RemoveEpr(e) ==
  /\ e \in hasEprs
  /\ hasEprs' = hasEprs \ {e}
  /\ UNCHANGED <<reqs, status, pending, scheduled, occupied, executed, failed,
                 clock, raised, routeOps, schedLog, tried, fnIn, fnOut>>

Next ==
  \/ \E k \in Kinds : ReceiveRequest(k)
  \/ \E m \in 0 .. MaxAttempts : ProcessRequestsCall(m)
  \/ SendScheduledRequestsCall
  \/ GenerateScheduleReportCall
  \/ RestartNetworkCall
  \/ \E e \in Depletable : RemoveEpr(e)

Spec == Init /\ [][Next]_vars

\* ------------------------------------------------------------ slice dispatch
\* Network.execute_scheduled_requests works on the request dicts of its
\* argument: net.st holds them as reqs / status, net.slice_path what each
\* dict carries under 'slice_path' (None when absent), net.log the steps
\* taken so far.
DispatchEvent(op, timeslot, r, returned, at) ==
  [op |-> op, timeslot |-> timeslot, req |-> r, returned |-> returned,
   clock |-> at]

\* application_layer.run_app for AC_BQC / BFK_BQC: with a slice_path the
\* route is the slice_path and the oracle is not asked; the two timeslot()
\* calls, the clearing of the route's EPR pairs, the transport and the rest
\* of the protocol are as without one.
RunAppOnPath(st, r, o, slice_path) ==
  IF slice_path = None THEN RunApp(st, r, o)
  ELSE LET s1 == [Ticks(st, 2) EXCEPT !.hasEprs =
                    IF o.eprsLeft THEN @ ELSE @ \ Channels(slice_path)]
       IN IF o.success
            THEN [st |-> Ticks(s1, TicksAfterTransport(st.reqs[r])),
                  success |-> TRUE]
            ELSE [st |-> s1, success |-> FALSE]

\* Network.execute_request(request, slice_paths): 'slice_1' is key 1 and
\* 'slice_2' key 2 of slice_paths.
NetworkExecuteRequest(net, r, o, slice_paths) ==
  LET protocol == net.st.reqs[r].protocol
      own == net.slice_path[r]
      lookup == /\ own = None
                /\ slice_paths.given
                /\ DOMAIN slice_paths.value # {}
      slice_key == IF protocol = "BFK_BQC" THEN 1 ELSE 2
      slice_path == IF lookup
                      THEN IF slice_key \in DOMAIN slice_paths.value
                             THEN slice_paths.value[slice_key]
                             ELSE None
                      ELSE own
      n1 == [net EXCEPT !.slice_path[r] = slice_path]
  IN IF protocol \in {"AC_BQC", "BFK_BQC"}
       THEN LET res == RunAppOnPath(n1.st, r, o, slice_path)
            IN [net |-> [n1 EXCEPT !.st =
                           [res.st EXCEPT !.status[r] =
                              IF res.success THEN "executado" ELSE "falhou"]],
                success |-> res.success]
       ELSE [net |-> [n1 EXCEPT !.st.status[r] = "erro"], success |-> FALSE]

\* while self.get_timeslot() < timeslot: self.timeslot()
RECURSIVE AdvanceTo(_, _)
AdvanceTo(net, timeslot) ==
  IF net.st.clock < timeslot
    THEN AdvanceTo([net EXCEPT
                      !.st = Timeslot(@),
                      !.log = Append(@, DispatchEvent("timeslot", timeslot, 0,
                                                      FALSE, net.st.clock + 1))],
                   timeslot)
    ELSE net

\* Variant: the status execute_request left on the request is kept.
RECURSIVE NetworkExecuteList_KeepsStatus(_, _, _, _, _, _)
NetworkExecuteList_KeepsStatus(net, timeslot, requests, i, slice_paths, script) ==
  IF i > Len(requests) THEN net
  ELSE LET r == requests[i]
           ex == NetworkExecuteRequest(net, r, script[r], slice_paths)
           n1 == [ex.net EXCEPT
                    !.log = Append(@, DispatchEvent("execute", timeslot, r,
                                                    ex.success, net.st.clock))]
       IN NetworkExecuteList_KeepsStatus(n1, timeslot, requests, i + 1,
                                         slice_paths, script)

\* for request in requests: execute it, then set its status from what the
\* execution returned.
RECURSIVE NetworkExecuteList(_, _, _, _, _, _)
NetworkExecuteList(net, timeslot, requests, i, slice_paths, script) ==
  IF i > Len(requests) THEN net
  ELSE LET r == requests[i]
           ex == NetworkExecuteRequest(net, r, script[r], slice_paths)
           n1 == [ex.net EXCEPT
                    !.st.status[r] = IF ex.success THEN "executado" ELSE "falhou",
                    !.log = Append(@, DispatchEvent("execute", timeslot, r,
                                                    ex.success, net.st.clock))]
       IN NetworkExecuteList(n1, timeslot, requests, i + 1, slice_paths, script)

\* for timeslot, requests in scheduled_requests.items(): the items in the
\* dict's insertion order.
RECURSIVE NetworkDispatchLoop(_, _, _, _, _)
NetworkDispatchLoop(net, items, j, slice_paths, script) ==
  IF j > Len(items) THEN net
  ELSE LET timeslot == items[j].timeslot
           n1 == [net EXCEPT
                    !.st = RestartNetwork(@),
                    !.log = Append(@, DispatchEvent("restart", timeslot, 0,
                                                    FALSE, net.st.clock))]
           n2 == AdvanceTo(n1, timeslot)
           n3 == NetworkExecuteList(n2, timeslot, items[j].requests, 1,
                                    slice_paths, script)
       IN NetworkDispatchLoop(n3, items, j + 1, slice_paths, script)

\* Network.execute_scheduled_requests(scheduled_requests, slice_paths)
NetworkExecuteScheduledRequests(st, carried, scheduled_requests, slice_paths, script) ==
  NetworkDispatchLoop([st |-> st, slice_path |-> carried, log |-> <<>>],
                      scheduled_requests, 1, slice_paths, script)

\* ------------------------------------------------------- slice scheduling calls
\* The slice handlers read and write nothing of the scheduler above; each is
\* looked at as one call on given arguments: fnIn holds the call, fnOut what
\* it returned.
SeqsUpTo(S, n) == UNION {[1 .. k -> S] : k \in 0 .. n}

ClientIds == {0, 1}
ServerId == 3
SliceProtocols == {"AC_BQC", "BFK_BQC"}
PathValues == {<<0, 1, 2, 3>>, <<1, 2, 3>>}

\* The path a caller configures for 'slice_k'.
SlicePath(k) == Path((k - 1) % ServerId, ServerId)

\* Slice tables a controller can hold before a call: the fresh one and one
\* left by an earlier call that configured two slices.
PreCfgs ==
  {EmptyCfg,
   InitializeSlices(EmptyCfg, <<1, 0>>, ServerId, <<"BFK_BQC", "AC_BQC">>,
                    <<<<1, 2, 3>>, <<0, 1, 2, 3>>>>).cfg}

InitializeSlicesCalls ==
  {[fn |-> "initialize_slices", cfg |-> c, clients |-> cl, server |-> ServerId,
    protocols |-> pr, slice_paths_list |-> pa] :
     c \in PreCfgs, cl \in SeqsUpTo(ClientIds, MaxSlices),
     pr \in SeqsUpTo(SliceProtocols, MaxSlices),
     pa \in SeqsUpTo(PathValues, MaxSlices)}

\* The request dicts of a list, told apart by their position in it.
RequestList(protos) ==
  [i \in DOMAIN protos |-> [id |-> i, protocol |-> protos[i], slice_path |-> <<>>]]

ScheduleRequestsCalls ==
  {[fn |-> "schedule_requests", requests |-> RequestList(ps),
    slice_paths |-> sp, protocols |-> pr] :
     ps \in SeqsUpTo(SliceProtocols, MaxBatch),
     sp \in {NotGiven} \cup {Given([k \in D |-> SlicePath(k)]) :
                               D \in SUBSET (1 .. MaxSlices)},
     pr \in {NotGiven} \cup {Given(l) : l \in SeqsUpTo(SliceProtocols, MaxSlices)}}

\* The queue of a slice: its requests, told apart by slice and arrival.
SliceQueue(slice_id, len) ==
  [slice_id |-> slice_id,
   queue |-> [j \in 1 .. len |-> [slice |-> slice_id, n |-> j]]]

ScheduleRequestsInTimeslotsCalls ==
  {[fn |-> "schedule_requests_in_timeslots",
    slice_requests |-> [i \in DOMAIN order |-> SliceQueue(order[i], lens[i])]] :
     order \in {o \in SeqsUpTo(1 .. MaxSlices, MaxSlices) :
                  \A i, j \in DOMAIN o : i # j => o[i] # o[j]},
     lens \in [1 .. MaxSlices -> 0 .. MaxQueue]}

\* protocol_to_slice dicts: some of the protocols, each mapped to a slice.
MapRequestsToSlicesCalls ==
  {[fn |-> "map_requests_to_slices", requests |-> RequestList(ps),
    protocol_to_slice |-> m] :
     ps \in SeqsUpTo(SliceProtocols, MaxBatch),
     m \in UNION {[D -> 1 .. MaxSlices] : D \in SUBSET SliceProtocols}}

\* What a caller of Network.execute_scheduled_requests passes as slice_paths
\* and whether schedule_requests annotated the requests with a slice_path.
DispatchPathOptions ==
  {[slice_paths |-> NotGiven, annotated |-> FALSE],
   [slice_paths |-> Given([k \in {1} |-> SlicePath(k)]), annotated |-> FALSE],
   [slice_paths |-> Given([k \in {1, 2} |-> SlicePath(k)]), annotated |-> FALSE],
   [slice_paths |-> NotGiven, annotated |-> TRUE]}

\* The schedule dict as its items in insertion order: the requests in order,
\* the first cut of them under timeslot t1 and the others under t2.
DispatchItems(order, cut, t1, t2) ==
  IF cut = Len(order)
    THEN <<[timeslot |-> t1, requests |-> order]>>
    ELSE <<[timeslot |-> t1, requests |-> SubSeq(order, 1, cut)],
           [timeslot |-> t2, requests |-> SubSeq(order, cut + 1, Len(order))]>>

\* One request of each protocol the slice dispatch tells apart: Andrews-Childs,
\* BFK and one it does not recognise.
DispatchKinds == {k \in Kinds : k.bob_id # 1}

\* Timeslot keys of a schedule with two entries, in either order: timeslot 1
\* (the first one schedule_requests hands out) and a later one.
DispatchKeys ==
  {p \in (1 .. MaxClock) \X (1 .. MaxClock) : p[1] # p[2] /\ 1 \in {p[1], p[2]}}

\* A call of Network.execute_scheduled_requests: the request dicts ks, listed
\* in the schedule forwards or backwards, and what the transport does for each.
DispatchCall(ks, opt, rev, cut, tt, succ, left) ==
  LET n == Len(ks)
  IN [fn |-> "execute_scheduled_requests",
      requests |-> ks,
      carried |-> [r \in 1 .. n |->
                     IF opt.annotated
                       THEN SlicePath(IF ks[r].protocol = "BFK_BQC" THEN 1 ELSE 2)
                       ELSE None],
      scheduled_requests |->
        DispatchItems([i \in 1 .. n |-> IF rev THEN n + 1 - i ELSE i],
                      cut, tt[1], tt[2]),
      slice_paths |-> opt.slice_paths,
      script |-> [r \in 1 .. n |-> [success |-> succ[r], eprsLeft |-> left]]]

SliceCalls ==
  InitializeSlicesCalls \cup ScheduleRequestsCalls
    \cup ScheduleRequestsInTimeslotsCalls \cup MapRequestsToSlicesCalls

SliceInit ==
  /\ ControllerInit
  /\ \/ fnIn \in SliceCalls
     \/ \E n \in 1 .. MaxRequests :
          \E ks \in [1 .. n -> DispatchKinds], opt \in DispatchPathOptions,
             rev \in BOOLEAN, cut \in 0 .. n, tt \in DispatchKeys,
             succ \in [1 .. n -> BOOLEAN], left \in BOOLEAN :
            fnIn = DispatchCall(ks, opt, rev, cut, tt, succ, left)
  /\ fnOut = NotCalled

controllerVars ==
  <<reqs, status, pending, scheduled, occupied, executed, failed, clock,
    hasEprs, raised, routeOps, schedLog, tried>>

\* Controller.initialize_slices(...)
InitializeSlicesCall ==
  /\ fnIn.fn = "initialize_slices"
  /\ fnOut = NotCalled
  /\ LET res == InitializeSlices(fnIn.cfg, fnIn.clients, fnIn.server,
                                 fnIn.protocols, fnIn.slice_paths_list)
     IN fnOut' = [fn |-> fnIn.fn, cfg |-> res.cfg, raised |-> res.raised]
  /\ UNCHANGED <<fnIn, controllerVars>>

\* Controller.schedule_requests(...)
ScheduleRequestsCall ==
  /\ fnIn.fn = "schedule_requests"
  /\ fnOut = NotCalled
  /\ LET res == ScheduleRequests(fnIn.requests, fnIn.slice_paths, fnIn.protocols)
     IN fnOut' = [fn |-> fnIn.fn, raised |-> res.raised,
                  timeslots |-> res.timeslots, requests |-> res.requests]
  /\ UNCHANGED <<fnIn, controllerVars>>

\* Controller.schedule_requests_in_timeslots(slice_requests)
ScheduleRequestsInTimeslotsCall ==
  /\ fnIn.fn = "schedule_requests_in_timeslots"
  /\ fnOut = NotCalled
  /\ LET res == ScheduleRequestsInTimeslots(fnIn.slice_requests)
     IN fnOut' = [fn |-> fnIn.fn, timeslots |-> res.timeslots,
                  slice_requests |-> res.slice_requests]
  /\ UNCHANGED <<fnIn, controllerVars>>

\* Controller.map_requests_to_slices(requests, protocol_to_slice)
MapRequestsToSlicesCall ==
  /\ fnIn.fn = "map_requests_to_slices"
  /\ fnOut = NotCalled
  /\ LET res == MapRequestsToSlices(fnIn.requests, fnIn.protocol_to_slice)
     IN fnOut' = [fn |-> fnIn.fn, raised |-> res.raised,
                  slice_requests |-> res.slice_requests]
  /\ UNCHANGED <<fnIn, controllerVars>>

\* Network.execute_scheduled_requests(scheduled_requests, slice_paths) on a
\* network whose clock and channels are as they stand.
NetworkExecuteScheduledRequestsCall ==
  /\ fnIn.fn = "execute_scheduled_requests"
  /\ fnOut = NotCalled
  /\ LET st0 == [State EXCEPT
                   !.reqs = fnIn.requests,
                   !.status = [r \in DOMAIN fnIn.requests |-> "none"]]
         res == NetworkExecuteScheduledRequests(st0, fnIn.carried,
                                                fnIn.scheduled_requests,
                                                fnIn.slice_paths, fnIn.script)
     IN /\ fnOut' = [fn |-> fnIn.fn, status |-> res.st.status,
                     slice_path |-> res.slice_path, log |-> res.log]
        /\ clock' = res.st.clock
        /\ hasEprs' = res.st.hasEprs
  /\ UNCHANGED <<fnIn, reqs, status, pending, scheduled, occupied, executed,
                 failed, raised, routeOps, schedLog, tried>>

SliceNext ==
  \/ InitializeSlicesCall
  \/ ScheduleRequestsCall
  \/ ScheduleRequestsInTimeslotsCall
  \/ MapRequestsToSlicesCall
  \/ NetworkExecuteScheduledRequestsCall

SliceSpec == SliceInit /\ [][SliceNext]_vars

\* ------------------------------------------------------------------- claims
\* The route the oracle gives for a received request.
RouteOf(r) == Path(reqs[r].alice_id, reqs[r].bob_id)

Ids == 1 .. Len(reqs)

Placed == {schedLog[i].req : i \in DOMAIN schedLog}

Dispatched == {executed[i].request : i \in DOMAIN executed}
                \cup {failed[i].request : i \in DOMAIN failed}

\* Position of a placed request in the order of placements.
PlacementOf(r) == CHOOSE i \in DOMAIN schedLog : schedLog[i].req = r

\* How many times a request occurs in the whole schedule table.
Occurrences(r) ==
  Cardinality({<<t, i>> \in (DOMAIN scheduled) \X (1 .. Len(reqs)) :
                 i \in DOMAIN scheduled[t] /\ scheduled[t][i] = r})

\* Timeslots a query can meaningfully name in a state: up to one past the
\* clock, the clock taken no further than the last value scheduling starts at.
Slots == 0 .. (Min(clock, MaxClock) + 1)

\* C1: in every timeslot of the schedule table, every channel of the
\* network is crossed by the route of at most one of the timeslot's requests.
C1_LinkCarriesOneRequest ==
  \A t \in DOMAIN scheduled : \A e \in Edges :
    Cardinality({i \in DOMAIN scheduled[t] :
                   e \in Channels(RouteOf(scheduled[t][i]))}) <= 1

\* C2: the request a scheduling pass tries first has the least key
\* (num_qubits, -instruction count) of all requests pending when the pass
\* began, and among equal keys it is the one submitted earliest.
C2_FirstTriedIsMinimal ==
  tried # <<>> =>
    \A r \in (Range(pending) \cup Range(tried)) \ {tried[1]} :
      LET f == reqs[tried[1]]
          o == reqs[r]
      IN \/ f.num_qubits < o.num_qubits
         \/ f.num_qubits = o.num_qubits /\ f.gates > o.gates
         \/ f.num_qubits = o.num_qubits /\ f.gates = o.gates /\ tried[1] < r

\* C2 witness: a pass began with two requests pending and tried the later
\* submitted one first.
C2_Witness ==
  /\ tried # <<>>
  /\ tried[1] = 2
  /\ 1 \in Range(pending) \cup Range(tried)

C4_DisjointRoutesShare ==
  \A k \in Kinds :
    LET r == Len(reqs) + 1
        st0 == [State EXCEPT !.reqs = Append(@, k),
                             !.status = Append(@, "none")]
        route == Path(k.alice_id, k.bob_id)
    IN (/\ clock \in DOMAIN scheduled
        /\ Channels(route) \subseteq hasEprs
        /\ \A i \in DOMAIN scheduled[clock] :
             /\ Channels(RouteOf(scheduled[clock][i])) \subseteq hasEprs
             /\ AllButLast(RouteOf(scheduled[clock][i]))
                  \cap AllButLast(route) = {})
       => LET res == TryScheduleRequest(st0, r, clock)
          IN /\ res.ok
             /\ res.st.scheduled[clock] = Append(scheduled[clock], r)

\* C4 witness: a timeslot holds two requests, the second placed there by
\* sharing.
C4_Witness ==
  \E t \in DOMAIN scheduled :
    /\ Len(scheduled[t]) >= 2
    /\ AllButLast(RouteOf(scheduled[t][1]))
         \cap AllButLast(RouteOf(scheduled[t][2])) = {}

\* reserve_route calls whose route has not been released since.
Outstanding ==
  {i \in DOMAIN routeOps :
     /\ routeOps[i].op = "reserve"
     /\ ~\E j \in DOMAIN routeOps :
          j > i /\ routeOps[j].op = "release"
                /\ routeOps[j].route = routeOps[i].route}

LastOpOn(l) ==
  LET S == {i \in DOMAIN routeOps : l \in Links(routeOps[i].route)}
  IN IF S = {} THEN 0 ELSE CHOOSE i \in S : \A j \in S : j <= i

C6_ReservePairedWithRelease ==
  \A r \in Dispatched :
    \E i \in DOMAIN routeOps :
      /\ routeOps[i].op = "reserve" /\ routeOps[i].req = r
      /\ Cardinality({j \in DOMAIN routeOps :
                        /\ j > i
                        /\ routeOps[j].op = "release"
                        /\ routeOps[j].req = r
                        /\ routeOps[j].route = routeOps[i].route}) = 1

\* C7: no request occurs more than once in the schedule table, and every
\* request placed and not yet dispatched occurs in it exactly once.
C7_ScheduledExactlyOnce ==
  \A r \in Ids :
    /\ Occurrences(r) <= 1
    /\ (r \in Placed \ Dispatched => Occurrences(r) = 1)

\* C7 witness: one request sits in the schedule table while another has
\* been placed and dispatched.
C7_Witness ==
  /\ \E r \in Placed \ Dispatched : Occurrences(r) = 1
  /\ Dispatched # {}

\* C8: every completed send_scheduled_requests call leaves the schedule
\* table empty: no step that is a send_scheduled_requests call ends with an
\* entry left in the table.
C8_DispatchEmptiesSchedule ==
  [][scheduled' = <<>> \/ ~SendScheduledRequestsCall]_vars

\* C8 witness: after a dispatch of two requests, one executed and one
\* failed, the schedule table is empty.
C8_Witness ==
  /\ executed # <<>>
  /\ failed # <<>>
  /\ scheduled = <<>>

\* C9: every dispatched request has status executed or failed.
C9_DispatchedHaveTerminalStatus ==
  \A r \in Dispatched : status[r] \in {"executado", "falhou"}

\* The scenario of C10: from the empty scheduler, A = (0 -> 3, 5 qubits) is
\* submitted first and B = (1 -> 2, 3 qubits) second.
ScenarioAB ==
  /\ Len(reqs) >= 2
  /\ reqs[1].alice_id = 0 /\ reqs[1].bob_id = 3 /\ reqs[1].num_qubits = 5
  /\ reqs[2].alice_id = 1 /\ reqs[2].bob_id = 2 /\ reqs[2].num_qubits = 3

\* C10 as stated: in the scenario, B is placed before A.
C10_FewerQubitsScheduledFirst ==
  (ScenarioAB /\ {1, 2} \subseteq Placed) => PlacementOf(2) < PlacementOf(1)

\* C10 amended: in the scenario, A is placed first whenever it is placed
\* before B is submitted (receive_request runs a pass at once, so this is
\* what happens when A's route resolves on submission); B is placed before A
\* when A is still pending at B's submission.
C10_PlacedFirstUnlessStillPending ==
  (ScenarioAB /\ 1 \in Placed) =>
    IF schedLog[PlacementOf(1)].nreq = 1
      THEN 2 \in Placed => PlacementOf(1) < PlacementOf(2)
      ELSE 2 \in Placed /\ PlacementOf(2) < PlacementOf(1)

\* C10 witness: in the scenario, A was placed on its own submission in
\* timeslot 1 and B after it in timeslot 2.
C10_Witness ==
  /\ ScenarioAB
  /\ Len(schedLog) >= 2
  /\ schedLog[1] = [req |-> 1, ts |-> 1, nreq |-> 1]
  /\ schedLog[2] = [req |-> 2, ts |-> 2, nreq |-> 2]

\* The scenario of C11: the first two requests submitted from the empty
\* scheduler have the routes [0,1,2,3] and [1,2], in either order.
ScenarioRoutes ==
  /\ Len(reqs) >= 2
  /\ {RouteOf(1), RouteOf(2)} = {<<0, 1, 2, 3>>, <<1, 2>>}

\* C11: in the scenario the two requests are placed in different timeslots,
\* and no timeslot of the schedule table ever holds a request routed
\* [0,1,2,3] together with one routed [1,2].
C11_OverlappingPairInDifferentTimeslots ==
  /\ (ScenarioRoutes /\ {1, 2} \subseteq Placed) =>
       schedLog[PlacementOf(1)].ts # schedLog[PlacementOf(2)].ts
  /\ \A t \in DOMAIN scheduled : \A i, j \in DOMAIN scheduled[t] :
       ~(/\ RouteOf(scheduled[t][i]) = <<0, 1, 2, 3>>
         /\ RouteOf(scheduled[t][j]) = <<1, 2>>)

\* C11 witness: the request routed [1,2] was submitted first and placed in
\* timeslot 1, the request routed [0,1,2,3] second and placed in another
\* timeslot, and both are in the schedule table.
C11_Witness ==
  /\ ScenarioRoutes
  /\ RouteOf(1) = <<1, 2>>
  /\ {1, 2} \subseteq Placed \ Dispatched
  /\ schedLog[PlacementOf(1)].ts = 1
  /\ schedLog[PlacementOf(2)].ts # 1

\* The iterations of a pass that failed to place their request.
Failures(log) == {i \in DOMAIN log : ~log[i].ok}

\* C12: whatever max_attempts a process_requests call is given, if it
\* returns then every failed iteration advanced the clock by exactly one, no
\* more than max_attempts iterations failed, and the call ended either with
\* pending empty or with exactly max_attempts failed iterations in a row as
\* its last ones; with the default max_attempts the only failed iteration is
\* the last one of the call.
C12_StopsAtMaxAttempts ==
  \A m \in 0 .. MaxAttempts :
    LET res == ProcessRequests(State, m)
        log == res.passLog
        n == Len(log)
    IN ~res.raised =>
         /\ \A i \in Failures(log) : log[i].after = log[i].at + 1
         /\ Cardinality(Failures(log)) <= m
         /\ \/ res.pending = <<>>
            \/ /\ n >= m
               /\ Failures(log) = (n - m + 1) .. n
         /\ (m = DefaultMaxAttempts /\ Failures(log) # {}) =>
              /\ Failures(log) = {n}
              /\ res.clock = log[n].at + 1

\* C12 witness: a call with max_attempts = 2 has just returned after failing
\* twice on the same head request, which is still pending.
C12_Witness ==
  /\ ~raised
  /\ Len(tried) = 2
  /\ tried[1] = tried[2]
  /\ pending # <<>>
  /\ Head(pending) = tried[1]
  /\ clock >= 3

\* The oracle has no route for request r in the current state.
NoRoute(r) == ~(Channels(RouteOf(r)) \subseteq hasEprs)

\* C13: for a pending request the oracle has no route for,
\* try_schedule_request returns False and leaves every field as it was, the
\* clock included; a process_requests() call whose head request has no route
\* leaves failed_requests, the schedule table and the reservation table
\* unchanged and the request at the head of pending, and advances the clock
\* by one from the timeslot of the attempt.
C13_NoRouteChangesNothing ==
  /\ \A r \in Range(pending) : \A t \in Slots :
       NoRoute(r) =>
         TryScheduleRequest(State, r, t)
           = [st |-> State, ok |-> FALSE, raised |-> FALSE]
  /\ pending # <<>> =>
       LET sorted == PrioritizeRequests(reqs, pending)
           res == ProcessRequests(State, DefaultMaxAttempts)
       IN NoRoute(Head(sorted)) =>
            /\ res.failed = failed
            /\ res.scheduled = scheduled
            /\ res.occupied = occupied
            /\ res.pending = sorted
            /\ res.clock = (IF clock = 0 THEN 1 ELSE clock) + 1

\* C13 witness: a pass has just ended on a head request without a route; the
\* request is still at the head of pending, the schedule table holds another
\* request and nothing has been recorded as failed.
C13_Witness ==
  /\ ~raised
  /\ pending # <<>>
  /\ tried # <<>>
  /\ tried[Len(tried)] = Head(pending)
  /\ NoRoute(Head(pending))
  /\ scheduled # <<>>
  /\ failed = <<>>

\* Number of requests in the schedule table.
ScheduledCount ==
  LET RECURSIVE Sum(_)
      Sum(T) == IF T = {} THEN 0
                ELSE LET t == CHOOSE x \in T : TRUE
                     IN Len(scheduled[t]) + Sum(T \ {t})
  IN Sum(DOMAIN scheduled)

\* C16: the report's success is the number of executed records, its failed
\* the number of failure records, and its scheduled the number of requests
\* in the schedule table.
C16_ReportCountsRequests ==
  LET report == GenerateScheduleReport(State).report
  IN /\ report.success = Len(executed)
     /\ report.failed = Len(failed)
     /\ report.scheduled = ScheduledCount

\* C17: generate_schedule_report leaves every field as it was, and a second
\* call made straight after the first returns an equal report.
C17_ReportLeavesStateUnchanged ==
  LET first == GenerateScheduleReport(State)
      second == GenerateScheduleReport(first.st)
  IN /\ first.st = State
     /\ second.report = first.report

\* C17 witness: a state whose report has a failure detail and counts a
\* scheduled timeslot.
C17_Witness ==
  LET report == GenerateScheduleReport(State).report
  IN /\ report.failed >= 1
     /\ report.scheduled >= 1
     /\ Len(report.failed_details) >= 1

\* C18: when a scheduled request is dispatched and its route resolves, the
\* route is released whatever the execution returns; when the execution
\* returns False exactly one failure record is appended for the request and
\* no executed record, and when it returns True one executed record and no
\* failure record.
C18_FailedExecutionRecordedAndReleased ==
  \A t \in DOMAIN scheduled : \A i \in DOMAIN scheduled[t] : \A o \in Outcomes :
    LET r == scheduled[t][i]
        q == ShortRouteValid(State, reqs[r].alice_id, reqs[r].bob_id, TRUE)
        ex == ExecuteRequest(q.st, r, o)
        res == ExecuteList(State, t, <<r>>, 1, [x \in {r} |-> o])
    IN q.route # None =>
         /\ Links(q.route) \cap DOMAIN res.occupied = {}
         /\ res.routeOps = Append(routeOps, [op |-> "release", route |-> q.route,
                                             ts |-> 0, req |-> r])
         /\ ~ex.success =>
              /\ res.failed = Append(failed, [request |-> r,
                                              reason |-> "Falha desconhecida"])
              /\ res.executed = executed
         /\ ex.success =>
              /\ res.failed = failed
              /\ res.executed = Append(executed, [request |-> r, timeslot |-> t])

\* C18 witness: a request whose execution returned False has been
\* dispatched: it has one failure record, no executed record, and its route
\* was released after it had been reserved.
C18_Witness ==
  \E r \in Ids :
    /\ status[r] \in {"falhou", "erro"}
    /\ Cardinality({i \in DOMAIN failed : failed[i].request = r}) = 1
    /\ \A i \in DOMAIN executed : executed[i].request # r
    /\ \E i, j \in DOMAIN routeOps :
         /\ i < j
         /\ routeOps[i].op = "reserve" /\ routeOps[i].req = r
         /\ routeOps[j].op = "release" /\ routeOps[j].req = r
         /\ routeOps[j].route = routeOps[i].route

\* The k-th smallest element of a set of numbers.
RECURSIVE KthSmallest(_, _)
KthSmallest(S, k) ==
  IF k = 1 THEN SetMin(S) ELSE KthSmallest(S \ {SetMin(S)}, k - 1)

\* C19: whatever the outcomes, send_scheduled_requests executes the
\* timeslots of the schedule table in ascending order, restarts the network
\* once after each of them and before the next, and the executed records it
\* appends are in nondecreasing timeslot order.
C19_AscendingWithRestartAfterEach ==
  [](\A script \in [ScheduledIds(scheduled) -> Outcomes] :
      LET res == SendScheduledRequests(State, script)
          log == res.dispatchLog
          keys == DOMAIN scheduled
          n == Cardinality(keys)
      IN /\ Len(log) = 2 * n
         /\ \A k \in 1 .. n :
              /\ log[2 * k - 1] = [op |-> "execute", ts |-> KthSmallest(keys, k)]
              /\ log[2 * k] = [op |-> "restart", ts |-> KthSmallest(keys, k)]
         /\ \A i, j \in (Len(executed) + 1) .. Len(res.executed) :
              i < j => res.executed[i].timeslot <= res.executed[j].timeslot
         /\ n > 0 => res.hasEprs = Edges)

\* C19 witness: two requests scheduled in different timeslots have been
\* executed, the earlier timeslot's first, and the network stands restarted.
C19_Witness ==
  /\ Len(executed) >= 2
  /\ executed[1].timeslot < executed[2].timeslot
  /\ scheduled = <<>>
  /\ hasEprs = Edges

\* The requests of a timeslot table, timeslot after timeslot.
RECURSIVE Concat(_, _)
Concat(timeslots, t) ==
  IF t > Len(timeslots) THEN <<>>
  ELSE timeslots[t] \o Concat(timeslots, t + 1)

\* C14: a schedule_requests call that returns, on n requests with N slice
\* paths, returns ceil(n/N) timeslots keyed 1..k; each holds exactly N
\* requests except possibly the last, which holds at least one; the
\* timeslots put end to end are the input list in its order; 5 requests with
\* 2 slice paths give sizes 2, 2, 1.
C14_BatchesOfCapacity ==
  (fnOut.fn = "schedule_requests" /\ ~fnOut.raised) =>
    LET n == Len(fnIn.requests)
        N == Cardinality(DOMAIN fnIn.slice_paths.value)
        ts == fnOut.timeslots
        k == CHOOSE c \in 0 .. n : c * N >= n /\ (c = 0 \/ (c - 1) * N < n)
        all == Concat(ts, 1)
    IN /\ N >= 1
       /\ DOMAIN ts = 1 .. k
       /\ \A t \in 1 .. (k - 1) : Len(ts[t]) = N
       /\ k >= 1 => (Len(ts[k]) >= 1 /\ Len(ts[k]) <= N)
       /\ Len(all) = n
       /\ \A i \in 1 .. n : all[i].id = fnIn.requests[i].id
       /\ (n = 5 /\ N = 2) =>
            [t \in DOMAIN ts |-> Len(ts[t])] = <<2, 2, 1>>

\* C14 witness: five requests of one protocol were batched with two slice
\* paths into three timeslots, the last one holding a single request.
C14_Witness ==
  /\ fnOut.fn = "schedule_requests"
  /\ ~fnOut.raised
  /\ Len(fnIn.requests) = 5
  /\ \A i \in DOMAIN fnIn.requests : fnIn.requests[i].protocol = "AC_BQC"
  /\ Cardinality(DOMAIN fnIn.slice_paths.value) = 2
  /\ Len(fnOut.timeslots) = 3
  /\ Len(fnOut.timeslots[3]) = 1

\* Where the requests of the returned timeslots are: (timeslot, position).
Cells(timeslots) ==
  {<<t, j>> \in (DOMAIN timeslots) \X (1 .. MaxSlices) : j \in DOMAIN timeslots[t]}

\* C15: schedule_requests_in_timeslots returns timeslots 1..k with k the
\* length of the longest queue; a timeslot holds at most one request of each
\* slice queue, in the order of the queues in the mapping; the requests of a
\* queue are in timeslots 1, 2, ... in their queue order; every request given
\* is in the timeslots exactly once and nothing else is.
C15_RoundRobinPlacement ==
  fnOut.fn = "schedule_requests_in_timeslots" =>
    LET qs == fnIn.slice_requests
        ts == fnOut.timeslots
        given == UNION {Range(qs[i].queue) : i \in DOMAIN qs}
        PositionOf(s) == CHOOSE i \in DOMAIN qs : qs[i].slice_id = s
    IN /\ \A i \in DOMAIN qs : Len(qs[i].queue) <= Len(ts)
       /\ (Len(ts) > 0 => \E i \in DOMAIN qs : Len(qs[i].queue) = Len(ts))
       /\ \A c \in Cells(ts) : ts[c[1]][c[2]] \in given
       /\ \A r \in given :
            Cardinality({c \in Cells(ts) : ts[c[1]][c[2]] = r}) = 1
       /\ \A c \in Cells(ts) : ts[c[1]][c[2]].n = c[1]
       /\ \A c, d \in Cells(ts) :
            (c[1] = d[1] /\ c[2] < d[2]) =>
              PositionOf(ts[c[1]][c[2]].slice) < PositionOf(ts[d[1]][d[2]].slice)

\* C15 witness: two queues, the first of the mapping shorter than the second,
\* were placed: the first timeslot holds one request of each, the later ones
\* only requests of the longer queue.
C15_Witness ==
  /\ fnOut.fn = "schedule_requests_in_timeslots"
  /\ Len(fnIn.slice_requests) = 2
  /\ Len(fnIn.slice_requests[1].queue) = 1
  /\ Len(fnIn.slice_requests[2].queue) = 2
  /\ Len(fnOut.timeslots) = 2
  /\ Len(fnOut.timeslots[1]) = 2
  /\ Len(fnOut.timeslots[2]) = 1

\* C20: initialize_slices raises whenever clients, protocols and paths are
\* not all of one length, and then leaves the slice table and the protocol
\* queues as they were; with equal lengths it does not raise, slice_i binds
\* client i, the server, path i and protocol i for every index i, and no other
\* slice is created or changed.
C20_SlicesConfiguredOrRejected ==
  fnOut.fn = "initialize_slices" =>
    LET n == Len(fnIn.clients)
        equal == /\ Len(fnIn.protocols) = n
                 /\ Len(fnIn.slice_paths_list) = n
        before == fnIn.cfg.slices
        after == fnOut.cfg.slices
    IN IF ~equal
         THEN fnOut.raised /\ fnOut.cfg = fnIn.cfg
         ELSE /\ ~fnOut.raised
              /\ DOMAIN after = DOMAIN before \cup (1 .. n)
              /\ \A i \in 1 .. n :
                   after[i] = [client |-> fnIn.clients[i],
                               server |-> fnIn.server,
                               path |-> fnIn.slice_paths_list[i],
                               protocol |-> fnIn.protocols[i]]
              /\ \A i \in DOMAIN before \ (1 .. n) : after[i] = before[i]

\* C20 witness: on a controller that already has two slices, a call with two
\* clients, two protocols and one path was rejected and changed nothing.
C20_Witness ==
  /\ fnOut.fn = "initialize_slices"
  /\ fnOut.raised
  /\ Len(fnIn.clients) = 2
  /\ Len(fnIn.protocols) = 2
  /\ Len(fnIn.slice_paths_list) = 1
  /\ fnIn.cfg # EmptyCfg
  /\ fnOut.cfg = fnIn.cfg

\* C21: schedule_requests called with protocols left out or empty raises,
\* returns no timeslot assignment and leaves every request of the caller's
\* list without annotation.
C21_EmptyProtocolsRejected ==
  (fnOut.fn = "schedule_requests"
     /\ (~fnIn.protocols.given \/ fnIn.protocols.value = <<>>))
    => /\ fnOut.raised
       /\ fnOut.timeslots = <<>>
       /\ fnOut.requests = fnIn.requests

\* C22: map_requests_to_slices raises exactly when some request's protocol
\* is not a key of the mapping; otherwise the groups have distinct slices,
\* the group of a slice is the requests whose protocol maps to it, in input
\* order, and every request is in exactly one group.
C22_GroupedInOrderOrRejected ==
  fnOut.fn = "map_requests_to_slices" =>
    LET requests == fnIn.requests
        m == fnIn.protocol_to_slice
        groups == fnOut.slice_requests
        MapsTo(slice_id) ==
          SelectSeq(requests, LAMBDA r : m[r.protocol] = slice_id)
    IN /\ fnOut.raised
            <=> \E i \in DOMAIN requests : requests[i].protocol \notin DOMAIN m
       /\ fnOut.raised => groups = <<>>
       /\ ~fnOut.raised =>
            /\ \A j, k \in DOMAIN groups :
                 j # k => groups[j].slice_id # groups[k].slice_id
            /\ \A j \in DOMAIN groups :
                 groups[j].queue = MapsTo(groups[j].slice_id)
            /\ \A i \in DOMAIN requests :
                 Cardinality({j \in DOMAIN groups :
                                \E n \in DOMAIN groups[j].queue :
                                  groups[j].queue[n] = requests[i]}) = 1

\* Requests of two protocols arrive interleaved and are split into two
\* groups, the second protocol's slice first seen second.
C22_Witness ==
  /\ fnOut.fn = "map_requests_to_slices"
  /\ ~fnOut.raised
  /\ Len(fnIn.requests) >= 3
  /\ fnIn.requests[1].protocol # fnIn.requests[2].protocol
  /\ fnIn.requests[3].protocol = fnIn.requests[1].protocol
  /\ Len(fnOut.slice_requests) = 2
  /\ Len(fnOut.slice_requests[1].queue) >= 2

\* C23: a request whose protocol the dispatch does not recognise (status
\* 'erro') is not absorbed as a failed execution: it has no failure record.
C23_UnrecognisedProtocolNotAbsorbed ==
  \A i \in DOMAIN failed : status[failed[i].request] # "erro"

\* The routes of the network: the path between any two different nodes.
AllRoutes == {Path(a, b) : <<a, b>> \in {p \in Nodes \X Nodes : p[1] # p[2]}}

\* The reservation table after the first n reserve and release calls.
RECURSIVE TableAfter(_)
TableAfter(n) ==
  IF n = 0 THEN <<>>
  ELSE IF routeOps[n].op = "reserve"
    THEN ReserveRoute(TableAfter(n - 1), routeOps[n].route, routeOps[n].ts)
  ELSE ReleaseRoute(TableAfter(n - 1), routeOps[n].route)

\* C24: release_route on a route none of whose links has an entry leaves the
\* reservation table as it was, and releasing a route a second time changes
\* nothing the first release had not changed.
C24_ReleaseIsIdempotent ==
  \A route \in AllRoutes :
    LET once == ReleaseRoute(occupied, route)
    IN /\ (\A l \in Links(route) : l \notin DOMAIN occupied) => once = occupied
       /\ ReleaseRoute(once, route) = once

\* A dispatch released a route whose entries an earlier release had already
\* removed, and the table the program holds is the one the calls built.
C24_Witness ==
  /\ occupied = TableAfter(Len(routeOps))
  /\ \E j \in DOMAIN routeOps :
       /\ routeOps[j].op = "release"
       /\ \A l \in Links(routeOps[j].route) : l \notin DOMAIN TableAfter(j - 1)
       /\ \E i \in 1 .. (j - 1) :
            /\ routeOps[i].op = "release"
            /\ Links(routeOps[i].route) \cap Links(routeOps[j].route) # {}

\* C25: a try_schedule_request call that places the request leaves the clock
\* at the value it had when the call started.
C25_PlacementLeavesClock ==
  \A k \in Kinds :
    LET r == Len(reqs) + 1
        st0 == [State EXCEPT !.reqs = Append(@, k),
                             !.status = Append(@, "none")]
        res == TryScheduleRequest(st0, r, clock)
    IN res.ok => res.st.clock = clock

\* How many times x occurs in a list.
CountIn(list, x) == Cardinality({i \in DOMAIN list : list[i] = x})

\* C26: every received request occurs exactly once in pending, the schedule
\* table, the executed records and the failure records taken together, so
\* the number received is the sum of the four sizes and a request with an
\* executed or failure record is neither pending nor scheduled.
C26_RequestInExactlyOnePlace ==
  /\ \A r \in Ids :
       CountIn(pending, r) + Occurrences(r)
         + CountIn([i \in DOMAIN executed |-> executed[i].request], r)
         + CountIn([i \in DOMAIN failed |-> failed[i].request], r) = 1
  /\ Len(reqs) = Len(pending) + ScheduledCount + Len(executed) + Len(failed)
  /\ \A r \in Dispatched : r \notin Range(pending) /\ Occurrences(r) = 0

\* Two requests: the first has been dispatched and has its record, the
\* second was received and scheduled after that dispatch.
C26_Witness ==
  /\ Len(reqs) = 2
  /\ Dispatched = {1}
  /\ Occurrences(2) = 1
  /\ \E i \in DOMAIN schedLog : schedLog[i].req = 2 /\ schedLog[i].nreq = 2
  /\ status[1] \in {"executado", "falhou", "erro"}

\* A list of request ids is in priority order: no request has a smaller key
\* than one before it.
InPriorityOrder(rq, list) ==
  \A i, j \in DOMAIN list : i < j => ~KeyLess(rq[list[j]], rq[list[i]])

\* One process_requests(m) call from state st0: the requests it places are
\* the first n of the sorted pending list, placed in that order; pending is
\* left as the rest of the sorted list; and when the call returns with
\* requests pending, its last iteration failed on the request now at the head
\* and no request behind it was tried.
PassPlacesPrefix(st0, m) ==
  LET sorted == PrioritizeRequests(st0.reqs, st0.pending)
      res == ProcessRequests(st0, m)
      log == res.passLog
      new == SubSeq(res.schedLog, Len(st0.schedLog) + 1, Len(res.schedLog))
      n == Len(new)
  IN /\ InPriorityOrder(st0.reqs, sorted)
     /\ n <= Len(sorted)
     /\ \A i \in 1 .. n : new[i].req = sorted[i]
     /\ res.pending = SubSeq(sorted, n + 1, Len(sorted))
     /\ (res.pending # <<>> /\ m > 0 /\ ~res.raised) =>
          /\ log # <<>>
          /\ log[Len(log)].req = Head(res.pending)
          /\ ~log[Len(log)].ok
          /\ \A i \in DOMAIN log : log[i].req \notin Range(Tail(res.pending))

\* C27: a process_requests call, made directly with any max_attempts or by
\* receive_request with the default, places a prefix of the priority-sorted
\* pending list in priority order and stops at the first request it cannot
\* place; pending keeps the rest in sorted order.
C27_PassPlacesSortedPrefix ==
  /\ \A m \in 0 .. MaxAttempts : PassPlacesPrefix(State, m)
  /\ Len(reqs) < MaxRequests =>
       \A k \in Kinds :
         PassPlacesPrefix([State EXCEPT !.reqs = Append(@, k),
                                        !.status = Append(@, "none"),
                                        !.pending = Append(@, Len(reqs) + 1)],
                          DefaultMaxAttempts)

\* A pass has just stopped at a head request without a route while the
\* request behind it has one: both are still pending, in priority order.
C27_Witness ==
  /\ ~raised
  /\ Len(pending) = 2
  /\ tried = <<Head(pending)>>
  /\ KeyLess(reqs[pending[1]], reqs[pending[2]])
  /\ NoRoute(pending[1])
  /\ ~NoRoute(pending[2])

\* C28: when try_schedule_request has a route and does not place the request
\* by sharing (the timeslot it was given holds no request, or the share scan
\* found a conflict), it places the request at the smallest timeslot t, from
\* the clock value at that moment on, at which is_route_available holds for
\* the route, and afterwards every link of the route is in the reservation
\* table with timeslot t.
C28_FallbackAtFirstFreeTimeslot ==
  \A k \in Kinds : \A t0 \in DOMAIN scheduled \cup {clock + 1} :
    LET r == Len(reqs) + 1
        st0 == [State EXCEPT !.reqs = Append(@, k),
                             !.status = Append(@, "none")]
        route == Path(k.alice_id, k.bob_id)
        sh == IF t0 \in DOMAIN scheduled
                THEN ShareTimeslot(st0, route, t0)
                ELSE [st |-> st0, ok |-> FALSE, raised |-> FALSE]
        from == sh.st.clock
        res == TryScheduleRequest(st0, r, t0)
        log == res.st.schedLog
    IN (Channels(route) \subseteq hasEprs /\ ~sh.ok /\ ~sh.raised) =>
         /\ res.ok
         /\ Len(log) = Len(schedLog) + 1
         /\ log[Len(log)].req = r
         /\ LET t == log[Len(log)].ts
            IN /\ t >= clock
               /\ t >= from
               /\ IsRouteAvailable(occupied, route, t)
               /\ \A u \in from .. (t - 1) : ~IsRouteAvailable(occupied, route, u)
               /\ \A l \in Links(route) :
                    l \in DOMAIN res.st.occupied /\ res.st.occupied[l] = t
               /\ t \in DOMAIN res.st.scheduled
               /\ res.st.scheduled[t][Len(res.st.scheduled[t])] = r

\* The second of two requests whose routes have a link in common was placed
\* by the fallback, one timeslot after the first, and every link of its
\* route, the common one included, is now recorded with its timeslot.
C28_Witness ==
  /\ Len(schedLog) = 2
  /\ schedLog[1].req # schedLog[2].req
  /\ schedLog[2].ts = schedLog[1].ts + 1
  /\ Links(RouteOf(schedLog[1].req)) \cap Links(RouteOf(schedLog[2].req)) # {}
  /\ \A l \in Links(RouteOf(schedLog[2].req)) :
       l \in DOMAIN occupied /\ occupied[l] = schedLog[2].ts
  /\ clock = schedLog[2].ts

\* C29: after release_route(route) no link of the route has an entry,
\* whatever timeslot it held and whichever request wrote it, so
\* is_route_available(route, t) holds for every timeslot t; the entries of
\* links outside the route are as they were.  Only a timeslot written in the
\* table can make a route unavailable, so those and the clock's are looked at.
C29_ReleaseFreesEveryTimeslot ==
  \A route \in AllRoutes :
    LET released == ReleaseRoute(occupied, route)
    IN /\ DOMAIN released = DOMAIN occupied \ Links(route)
       /\ \A l \in DOMAIN released : released[l] = occupied[l]
       /\ \A t \in {clock} \cup {occupied[l] : l \in DOMAIN occupied} :
            IsRouteAvailable(released, route, t)

\* A dispatch released the route of a request while one of its links held
\* the timeslot of another request, reserved later for another timeslot and
\* not yet dispatched; the release removed that entry too.
C29_Witness ==
  \E i, j, n \in DOMAIN routeOps :
    /\ i < j /\ j < n
    /\ routeOps[i].op = "reserve"
    /\ routeOps[j].op = "release"
    /\ routeOps[n].op = "release"
    /\ routeOps[n].req = routeOps[i].req
    /\ routeOps[j].req # routeOps[i].req
    /\ \E l \in Links(routeOps[j].route) \cap Links(routeOps[i].route) :
         /\ l \in DOMAIN TableAfter(j - 1)
         /\ TableAfter(j - 1)[l] = routeOps[i].ts
         /\ \E x \in Links(routeOps[j].route) \cap DOMAIN TableAfter(j - 1) :
              TableAfter(j - 1)[x] # routeOps[i].ts
         /\ l \notin DOMAIN TableAfter(j)

\* The route gone through from its last node to its first.
ReversedRoute(route) == [i \in DOMAIN route |-> route[Len(route) + 1 - i]]

\* C30: when the last call on the reservation table was reserve_route of a
\* route at timeslot T, is_route_available at T is false for every route
\* that contains one of that route's hops reversed.
C30_ReversedHopUnavailable ==
  (routeOps # <<>> /\ routeOps[Len(routeOps)].op = "reserve") =>
    LET route == routeOps[Len(routeOps)].route
        T == routeOps[Len(routeOps)].ts
    IN \A other \in AllRoutes :
         Links(other) \cap Links(ReversedRoute(route)) # {}
           => ~IsRouteAvailable(occupied, other, T)

\* C31: no step of the program lowers the timeslot counter; Network.timeslot
\* raises it by exactly one; and the first attempt of a pass is made at the
\* clock value the pass found, or at 1 when it found 0.
C31_ClockMonotonic ==
  /\ [][clock' >= clock]_vars
  /\ [](/\ Timeslot(State).clock = clock + 1
        /\ \A k \in Kinds :
             LET st0 == [State EXCEPT !.reqs = Append(@, k),
                                      !.status = Append(@, "none"),
                                      !.pending = Append(@, Len(reqs) + 1)]
                 log == ProcessRequests(st0, DefaultMaxAttempts).passLog
             IN log # <<>> => log[1].at = (IF clock = 0 THEN 1 ELSE clock))

\* The clock has been advanced by a failed pass and by a dispatch, and the
\* network has been restarted since.
C31_Witness ==
  /\ pending # <<>>
  /\ executed # <<>>
  /\ hasEprs = Edges
  /\ clock >= 4

\* C32: every key of the schedule table, every timeslot stored in the
\* reservation table and every timeslot a request was ever placed in or a
\* route reserved for is at least 1.
C32_TimeslotsFromOne ==
  /\ \A t \in DOMAIN scheduled : t >= 1
  /\ \A l \in DOMAIN occupied : occupied[l] >= 1
  /\ \A i \in DOMAIN schedLog : schedLog[i].ts >= 1
  /\ \A i \in DOMAIN routeOps : routeOps[i].op = "reserve" => routeOps[i].ts >= 1

\* The first request, received with the clock at 0, has been placed in
\* timeslot 1 and its links reserved for it; the clock stands at 1.
C32_Witness ==
  /\ Len(reqs) = 1
  /\ clock = 1
  /\ DOMAIN scheduled = {1}
  /\ occupied # <<>>
  /\ \A l \in DOMAIN occupied : occupied[l] = 1
  /\ schedLog[1].ts = 1

\* In the list of attempts of a pass, request q comes before request p:
\* whenever p was attempted, q was attempted earlier.
AttemptedBefore(attempts, q, p) ==
  \A j \in DOMAIN attempts :
    attempts[j] = p => \E i \in 1 .. (j - 1) : attempts[i] = q

\* C33: in the pass run by receive_request, the request just received is
\* attempted before every request that was already pending and has a
\* strictly greater priority key; and in a process_requests call made
\* directly, of two pending requests the one with the strictly smaller key
\* is attempted before the other even when it was received later.
C33_ResortedEveryPass ==
  /\ \A k \in Kinds :
       LET r == Len(reqs) + 1
           st0 == [State EXCEPT !.reqs = Append(@, k),
                                !.status = Append(@, "none"),
                                !.pending = Append(@, r)]
           res == ProcessRequests(st0, DefaultMaxAttempts)
       IN \A p \in Range(pending) :
            KeyLess(k, reqs[p]) =>
              /\ AttemptedBefore(res.tried, r, p)
              /\ res.tried # <<>> /\ res.tried[1] # p
  /\ \A m \in 1 .. MaxAttempts :
       LET res == ProcessRequests(State, m)
       IN \A p, q \in Range(pending) :
            (q > p /\ KeyLess(reqs[q], reqs[p])) =>
              AttemptedBefore(res.tried, q, p)

\* A request that had stayed pending was attempted again only after a
\* request received later with a smaller key, which was placed; the older
\* one is pending still.
C33_Witness ==
  /\ Len(tried) = 2
  /\ tried[1] > tried[2]
  /\ KeyLess(reqs[tried[1]], reqs[tried[2]])
  /\ pending = <<tried[2]>>
  /\ tried[1] \in Placed
  /\ ~raised

\* The request ids of the timeslots of a schedule, timeslot by timeslot.
IdsOf(timeslots) ==
  [t \in DOMAIN timeslots |->
     [j \in DOMAIN timeslots[t] |-> timeslots[t][j].id]]

\* C34: after a schedule_requests call that returns, a request whose
\* protocol is first found at position i (from 0) of the protocol list has
\* as slice_path the path configured for slice i + 1 when there is one, and
\* the slice_path it came with otherwise; the timeslots hold the requests so
\* annotated; and which request goes to which timeslot is the same for every
\* protocol list the call returns with.
C34_AnnotatedByProtocolIndex ==
  (fnOut.fn = "schedule_requests" /\ ~fnOut.raised) =>
    LET paths == fnIn.slice_paths.value
        protocols == fnIn.protocols.value
        all == Concat(fnOut.timeslots, 1)
    IN /\ \A n \in DOMAIN fnIn.requests :
            LET before == fnIn.requests[n]
                after == fnOut.requests[n]
                i == (CHOOSE x \in DOMAIN protocols :
                        /\ protocols[x] = before.protocol
                        /\ \A y \in 1 .. (x - 1) : protocols[y] # before.protocol)
                       - 1
            IN /\ \E x \in DOMAIN protocols : protocols[x] = before.protocol
               /\ after.id = before.id /\ after.protocol = before.protocol
               /\ (i + 1) \in DOMAIN paths => after.slice_path = paths[i + 1]
               /\ (i + 1) \notin DOMAIN paths
                    => after.slice_path = before.slice_path
               /\ all[n] = after
       /\ \A other \in SeqsUpTo(SliceProtocols, MaxSlices) :
            LET res == ScheduleRequests(fnIn.requests, fnIn.slice_paths,
                                        Given(other))
            IN ~res.raised => IdsOf(res.timeslots) = IdsOf(fnOut.timeslots)

\* Three requests of two protocols were annotated: the two of the first
\* protocol of the list with the path of slice 1, the other with the path
\* of slice 2, and they were batched two to a timeslot.
C34_Witness ==
  /\ fnOut.fn = "schedule_requests"
  /\ ~fnOut.raised
  /\ fnIn.protocols.value = <<"BFK_BQC", "AC_BQC">>
  /\ DOMAIN fnIn.slice_paths.value = {1, 2}
  /\ Len(fnIn.requests) = 3
  /\ fnIn.requests[1].protocol = "BFK_BQC"
  /\ fnIn.requests[2].protocol = "AC_BQC"
  /\ fnIn.requests[3].protocol = "BFK_BQC"
  /\ fnOut.requests[1].slice_path = SlicePath(1)
  /\ fnOut.requests[2].slice_path = SlicePath(2)
  /\ fnOut.requests[3].slice_path = SlicePath(1)
  /\ Len(fnOut.timeslots) = 2

\* C35: in every reachable state and for every route, some timeslot from
\* the clock to the clock plus the number of links of the route has the
\* route available, so the scan of find_next_available_timeslot ends, and
\* the timeslot it returns is the first of them.
C35_ScanEndsWithinRouteLength ==
  \A route \in AllRoutes :
    LET last == clock + Cardinality(Links(route))
        t == FindNextAvailableTimeslot(State, route)
    IN /\ \E u \in clock .. last : IsRouteAvailable(occupied, route, u)
       /\ clock <= t /\ t <= last
       /\ IsRouteAvailable(occupied, route, t)
       /\ \A u \in clock .. (t - 1) : ~IsRouteAvailable(occupied, route, u)

\* A link of a route is reserved for the timeslot the clock stands at, so the
\* scan for that route has to go past the clock.
C35_Witness ==
  /\ clock >= 1
  /\ clock \in DOMAIN scheduled
  /\ \E route \in AllRoutes :
       /\ ~IsRouteAvailable(occupied, route, clock)
       /\ FindNextAvailableTimeslot(State, route) = clock + 1
       /\ Cardinality(Links(route)) >= 2

\* C36: try_schedule_request returns, and returns True exactly when the
\* oracle has a route for the request; when it has one the request is in
\* the schedule table afterwards, whatever the tables held.
C36_PlacedIffRouted ==
  \A k \in Kinds :
    LET r == Len(reqs) + 1
        st0 == [State EXCEPT !.reqs = Append(@, k),
                             !.status = Append(@, "none")]
        routed == Channels(Path(k.alice_id, k.bob_id)) \subseteq hasEprs
        res == TryScheduleRequest(st0, r, clock)
    IN /\ ~res.raised
       /\ res.ok <=> routed
       /\ routed => r \in ScheduledIds(res.st.scheduled)

\* C37: a process_requests call, made directly with any max_attempts from 0
\* up or by receive_request, returns; and when the oracle has a route for
\* every pending request it returns with pending empty and every request
\* that was pending in the schedule table.
C37_PassPlacesAllRouted ==
  /\ \A m \in 0 .. MaxAttempts :
       LET res == ProcessRequests(State, m)
       IN /\ ~res.raised
          /\ (\A p \in Range(pending) : ~NoRoute(p)) =>
               /\ res.pending = <<>>
               /\ Range(pending) \subseteq ScheduledIds(res.scheduled)
  /\ \A k \in Kinds :
       LET r == Len(reqs) + 1
           st0 == [State EXCEPT !.reqs = Append(@, k),
                                !.status = Append(@, "none"),
                                !.pending = Append(@, r)]
           res == ProcessRequests(st0, DefaultMaxAttempts)
       IN /\ ~res.raised
          /\ (/\ Channels(Path(k.alice_id, k.bob_id)) \subseteq hasEprs
              /\ \A p \in Range(pending) : ~NoRoute(p)) =>
               /\ res.pending = <<>>
               /\ Range(st0.pending) \subseteq ScheduledIds(res.scheduled)

\* Request r was dispatched on the route it had been scheduled on: a
\* release_route call was made for it, on the route of its reserve_route.
SameRouteAtDispatch(r) ==
  \E i, j \in DOMAIN routeOps :
    /\ i < j
    /\ routeOps[i].op = "reserve" /\ routeOps[i].req = r
    /\ routeOps[j].op = "release" /\ routeOps[j].req = r
    /\ routeOps[j].route = routeOps[i].route

\* C38: when nothing is pending or scheduled any more and the oracle gave
\* every dispatched request the route it had when it was scheduled, the
\* reservation table has no entry.
C38_NothingReservedAfterDispatch ==
  (/\ pending = <<>>
   /\ scheduled = <<>>
   /\ \A r \in Dispatched : SameRouteAtDispatch(r))
    => occupied = <<>>

\* Two requests over a common link, scheduled in different timeslots, have
\* both been dispatched on their routes, one of them failing in execution,
\* and the table is empty.
C38_Witness ==
  /\ Len(reqs) = 2
  /\ Dispatched = {1, 2}
  /\ pending = <<>> /\ scheduled = <<>>
  /\ \A r \in Dispatched : SameRouteAtDispatch(r)
  /\ Links(RouteOf(1)) \cap Links(RouteOf(2)) # {}
  /\ failed # <<>> /\ executed # <<>>
  /\ occupied = <<>>


\* The restarts and executions of a slice dispatch over the schedule's items
\* from the j-th on, as <<op, timeslot, request>>.
RECURSIVE DispatchOrder(_, _)
DispatchOrder(items, j) ==
  IF j > Len(items) THEN <<>>
  ELSE <<<<"restart", items[j].timeslot, 0>>>>
         \o [i \in DOMAIN items[j].requests |->
               <<"execute", items[j].timeslot, items[j].requests[i]>>]
         \o DispatchOrder(items, j + 1)

\* The steps of a dispatch log other than the clock's, as <<op, timeslot, request>>.
RestartsAndExecutions(log) ==
  LET kept == SelectSeq(log, LAMBDA e : e.op # "timeslot")
  IN [i \in DOMAIN kept |-> <<kept[i].op, kept[i].timeslot, kept[i].req>>]

\* C39: Network.execute_scheduled_requests takes the schedule's timeslots in
\* turn; for each it restarts the network first, then advances the clock one
\* step at a time until it is at least the timeslot (not at all when it
\* already is), then executes the timeslot's requests in list order.  When it
\* returns, a request's status is 'executado' if its execution returned true
\* and 'falhou' if not; a request of an unrecognised protocol ends 'falhou',
\* and one of a recognised protocol run on a slice path ends 'executado'
\* exactly when its transport succeeded.
C39_SliceDispatchOrderAndStatus ==
  fnOut.fn = "execute_scheduled_requests" =>
    LET log == fnOut.log
    IN /\ RestartsAndExecutions(log) = DispatchOrder(fnIn.scheduled_requests, 1)
       /\ \A i \in DOMAIN log :
            LET e == log[i]
            IN /\ e.op = "restart" =>
                    LET k == IF e.clock < e.timeslot
                               THEN e.timeslot - e.clock ELSE 0
                    IN /\ \A d \in 1 .. k :
                            /\ i + d \in DOMAIN log
                            /\ log[i + d].op = "timeslot"
                            /\ log[i + d].clock = e.clock + d
                       /\ i + k + 1 \in DOMAIN log =>
                            log[i + k + 1].op # "timeslot"
               /\ e.op = "timeslot" => i > 1 /\ log[i - 1].op # "execute"
               /\ e.op = "execute" =>
                    /\ e.clock >= e.timeslot
                    /\ fnOut.status[e.req] =
                         IF e.returned THEN "executado" ELSE "falhou"
       /\ \A r \in DOMAIN fnIn.requests :
            /\ fnOut.status[r] \in {"executado", "falhou"}
            /\ fnIn.requests[r].protocol \notin {"AC_BQC", "BFK_BQC"} =>
                 fnOut.status[r] = "falhou"
            /\ (/\ fnIn.requests[r].protocol \in {"AC_BQC", "BFK_BQC"}
                /\ fnOut.slice_path[r] # None) =>
                 (fnOut.status[r] = "executado" <=> fnIn.script[r].success)

\* C39 witness: a dispatch of two timeslots given in descending order, the
\* clock advanced for the first and left alone for the second, whose two
\* requests are listed against their numbering; one ran and ended
\* 'executado', the other is of an unrecognised protocol and ended 'falhou'.
C39_Witness ==
  /\ fnOut.fn = "execute_scheduled_requests"
  /\ Len(fnIn.scheduled_requests) = 2
  /\ fnIn.scheduled_requests[1].timeslot > fnIn.scheduled_requests[2].timeslot
  /\ fnIn.scheduled_requests[2].requests = <<2, 1>>
  /\ \E i \in DOMAIN fnOut.log : fnOut.log[i].op = "timeslot"
  /\ fnOut.status[2] = "executado"
  /\ fnIn.requests[1].protocol = "QKD_E91"
  /\ fnOut.status[1] = "falhou"
====
